---- MODULE Spec2Model ----
(***************************************************************************)
(* Model of the log-distribution subsystem (logRing, sseBroadcaster,       *)
(* logTeeWriter, LogsSSEHandler in stream.go), of the snapshot differ      *)
(* (deltaSnap), of the monitor loop (monitor.Run), of LoadConfig and of    *)
(* bytesToHuman of mysql-top-throughput-analyzer.                          *)
(*                                                                         *)
(* The specifications share the variables:                                 *)
(*   SpecRing  - a logRing of any constructible capacity driven by         *)
(*               Append / GetFrom / Head callers;                          *)
(*   SpecBus   - the process in push mode: log writers, the broadcaster    *)
(*               and the push-mode sessions of LogsSSEHandler;             *)
(*   SpecDelta - deltaSnap applied to pairs of snapshots;                  *)
(*   SpecMon   - monitor.Run from Startup to the return of main, over the  *)
(*               configurations and snapshots explored, tick bodies        *)
(*               shorter than the interval;                                *)
(*   SpecLoop  - monitor.Run with one configuration and tick bodies that   *)
(*               can outlast the interval (FairSpecLoop: the goroutine of  *)
(*               Run keeps running);                                       *)
(*   SpecEst   - the range over delta of one tick, over every value of the *)
(*               word;                                                     *)
(*   SpecSess  - one call of LogsSSEHandler, in push or poll mode, with    *)
(*               the writes it attempts on its client connection           *)
(*               (FairSpecSess: the handler keeps running);                *)
(*   SpecTee   - logTeeWriter.Write called byte-wise by two goroutines;    *)
(*   SpecLoad  - LoadConfig applied to command lines and environments;     *)
(*   SpecLk    - the goroutines that log and stream, in either mode, with  *)
(*               every Lock and Unlock of the three mutexes a step of its  *)
(*               own (FairSpecLk: the goroutines keep running, except in   *)
(*               writes to clients);                                       *)
(*   SpecHuman - bytesToHuman applied to every value of a scaled word.     *)
(***************************************************************************)
EXTENDS Integers, Sequences, FiniteSets, TLC

(***************************************************************************)
(* Bounds of the model.                                                    *)
(***************************************************************************)
\* largest capacity passed to newLogRing in SpecRing
MaxCap == 3
\* number of Append calls explored in SpecRing
MaxAppend == 4

\* globalLogRing's capacity, scaled down from the 2048 of the source
GlobalRingCap == 2
\* largest value of a cumulative counter in the snapshots explored
CMax == 1
\* width in bits of the word the uint64 of the source is scaled down to
WordBits == 2

\* capacity of a subscriber channel, scaled down from the 256 of the source
QueueCap == 1
\* number of log lines the monitor writes in SpecBus
MaxLog == 1
\* number of further calls of unsubscribe functions
MaxExtraUnsub == 1

\* the line contents offered to Append in SpecRing
Lines == {"A", "B", "C", "D"}

VARIABLES
    ring,       \* logRing: [cap, data, base, next]
    ringMu,     \* logRing.mu: TRUE while locked
    ringRet,    \* what the most recent logRing call returned
    appended,   \* history: every line passed to a completed Append, in order
    oldSnap,    \* deltaSnap's first argument
    newSnap,    \* deltaSnap's second argument
    deltaOut,   \* [st, out]: what deltaSnap returned once st = "done"
    sseNoBus,   \* the mode toggle: TRUE = poll mode, FALSE = push mode
    subs,       \* sseBroadcaster.subs: the registered channels
    chq,        \* the buffer of each subscriber channel
    chClosed,   \* whether each subscriber channel has been closed
    busMu,      \* sseBroadcaster.mu: "free" or the caller holding it
    teeMu,      \* logTeeWriter.mu: "free" or the caller holding it
    wr,         \* the Write in flight: its line, phase, channels still to range over
    monLines,   \* number of log lines the monitor has written
    pc,         \* where each push-mode session of LogsSSEHandler stands
    ctxDone,    \* whether each session's r.Context().Done() has fired
    panicked,   \* "none", or the panic a goroutine died of
    extraUnsub, \* calls of each unsubscribe function beyond the deferred one
    enq,        \* history: the lines enqueued to each channel, in order
    dropped,    \* history: the lines dropped for each channel
    regAt,      \* history: Broadcast calls begun before each channel registered
    deq,        \* history: the lines each session received from its channel, in order
    configuration, \* monitor.configuration: the four settings Run reads
    mon,        \* monitor.Run: its position, its locals, the Alert calls of the tick
    sess,       \* one call of LogsSSEHandler followed from request to return
    tee,        \* logTeeWriter: its buffer, its callers, the lines it emitted
    load,       \* one call of LoadConfig: command line, environment, result
    lk,         \* the goroutines that log and stream, and the three mutexes they take
    human       \* one call of bytesToHuman: its argument, its locals, its result

ringVars == <<ring, ringMu, ringRet, appended>>
deltaVars == <<oldSnap, newSnap, deltaOut>>
busVars == <<sseNoBus, subs, chq, chClosed, busMu, teeMu, wr, monLines, pc,
             ctxDone, panicked, extraUnsub, enq, dropped, regAt, deq>>

monVars == <<configuration, mon>>
sessVars == <<sess>>
teeVars == <<tee>>
loadVars == <<load>>
lkVars == <<lk>>
humanVars == <<human>>

vars == <<ring, ringMu, ringRet, appended, oldSnap, newSnap, deltaOut,
          sseNoBus, subs, chq, chClosed, busMu, teeMu, wr, monLines, pc,
          ctxDone, panicked, extraUnsub, enq, dropped, regAt, deq,
          configuration, mon, sess, tee, load, lk, human>>

(***************************************************************************)
(* Values of the parts a specification leaves out.                         *)
(***************************************************************************)
NoRet == [op |-> "none"]
\* deltaSnap has not been called / is not part of the specification
NoDelta == [st |-> "ready"]
DeltaOff == [st |-> "off"]
NoSnap == << >>

\* the differ is not part of this specification
DeltaIdle == oldSnap = NoSnap /\ newSnap = NoSnap /\ deltaOut = DeltaOff

\* the log writer is not part of this specification
TeeOff == [buf |-> <<>>, todo |-> <<>>, part |-> <<>>, written |-> <<>>,
           bcast |-> <<>>]
TeeIdle == tee = TeeOff

\* LoadConfig is not part of this specification
LoadOff == [pc |-> "off"]
LoadIdle == load = LoadOff
LkOff == [pc |-> "off"]
LkIdle == lk = LkOff
HumanOff == [pc |-> "off"]
HumanIdle == human = HumanOff

\* the monitor is not part of this specification
NoConfig == [AvgRowRead |-> 0, AvgRowSent |-> 0, ReadThreshold |-> 0,
             WriteThreshold |-> 0, MinPrintBytes |-> 0]
MonOff == [pc |-> "off", prev |-> NoSnap, curr |-> NoSnap, delta |-> NoSnap,
           todo |-> {}, alerts |-> <<>>, ticks |-> 0, fails |-> 0,
           startErr |-> "", tickQ |-> 0, missed |-> 0, stop |-> "none",
           overload |-> FALSE, lastOk |-> NoSnap, startups |-> 0,
           shutdowns |-> 0, closes |-> 0, exited |-> FALSE]
MonIdle == configuration = NoConfig /\ mon = MonOff

\* the followed handler call is not part of this specification
NoQuery == [given |-> FALSE, neg |-> FALSE, n |-> 0, unit |-> ""]
SessOff == [pc |-> "off", flusher |-> FALSE, query |-> NoQuery, heartbeat |-> 0,
            out |-> <<>>, connUp |-> TRUE, ctxDone |-> FALSE, beats |-> 0,
            polls |-> 0, seq |-> 0, lines |-> <<>>, next |-> 0,
            tickersStopped |-> FALSE, connectHead |-> 0, got |-> <<>>]
SessIdle == sess = SessOff

\* the push-mode sessions explored; a session's channel is named after it
Sessions == {"s1", "s2"}

NoWrite == [line |-> 0, phase |-> "idle", pending |-> {}]

\* no session, no subscriber, no writer: the broadcaster is not part of this
\* specification
BusIdle ==
    /\ sseNoBus = FALSE
    /\ subs = {}
    /\ chq = [c \in Sessions |-> <<>>]
    /\ chClosed = [c \in Sessions |-> FALSE]
    /\ busMu = "free"
    /\ teeMu = "free"
    /\ wr = NoWrite
    /\ monLines = 0
    /\ pc = [i \in Sessions |-> "off"]
    /\ ctxDone = [i \in Sessions |-> FALSE]
    /\ panicked = "none"
    /\ extraUnsub = [c \in Sessions |-> 0]
    /\ enq = [c \in Sessions |-> <<>>]
    /\ dropped = [c \in Sessions |-> {}]
    /\ regAt = [c \in Sessions |-> 0]
    /\ deq = [c \in Sessions |-> <<>>]

(***************************************************************************)
(* logRing                                                                 *)
(***************************************************************************)
Min(a, b) == IF a < b THEN a ELSE b
Max(a, b) == IF a > b THEN a ELSE b

\* data[from:] of a Go slice, 0-based from, as a TLA+ sequence
SliceFrom(s, from) == SubSeq(s, from + 1, Len(s))

newLogRing(capacity) == [cap |-> capacity, data |-> <<>>, base |-> 0, next |-> 0]

\* r.data[1:] is out of range when len(r.data) = 0: Append panics on the
\* eviction branch of a ring whose capacity is 0
AppendPanics(r) == Len(r.data) = r.cap /\ Len(r.data) < 1

\* Append without the base++ of the eviction branch
RingAppendNoBase(r, s) ==
    IF Len(r.data) = r.cap
    THEN [r EXCEPT !.data = Append(SliceFrom(r.data, 1), s), !.next = r.next + 1]
    ELSE [r EXCEPT !.data = Append(r.data, s), !.next = r.next + 1]

\* Append that evicts the newest retained line instead of the oldest
RingAppendEvictNewest(r, s) ==
    IF Len(r.data) = r.cap
    THEN [r EXCEPT !.data = Append(SubSeq(r.data, 1, Len(r.data) - 1), s),
                   !.base = r.base + 1, !.next = r.next + 1]
    ELSE [r EXCEPT !.data = Append(r.data, s), !.next = r.next + 1]

\* the ring after Append(s), for a call that does not panic
RingAppend(r, s) ==
    IF Len(r.data) = r.cap
    THEN [r EXCEPT !.data = Append(SliceFrom(r.data, 1), s),
                   !.base = r.base + 1, !.next = r.next + 1]
    ELSE [r EXCEPT !.data = Append(r.data, s), !.next = r.next + 1]

\* GetFrom without the clamp of seq to base: seq - r.base wraps around in
\* uint64 and the int conversion lands outside 0..len(r.data)
RingGetFromNoClamp(r, seq) ==
    IF seq > r.next
    THEN [out |-> <<>>, next |-> r.next]
    ELSE LET d == seq - r.base
             startIdx == IF d < 0 \/ d > Len(r.data) THEN Len(r.data) ELSE d
         IN  [out |-> SliceFrom(r.data, startIdx), next |-> r.next]

\* GetFrom(seq): the lines returned and the new cursor
RingGetFrom(r, seq) ==
    LET sq == IF seq < r.base THEN r.base ELSE seq IN
    IF sq > r.next
    THEN [out |-> <<>>, next |-> r.next]
    ELSE LET d == sq - r.base
             startIdx == IF d < 0 \/ d > Len(r.data) THEN Len(r.data) ELSE d
         IN  [out |-> SliceFrom(r.data, startIdx), next |-> r.next]

RingHead(r) == r.next

\* Append(s) by any caller; the whole call runs under r.mu. A panic leaves
\* r.mu locked (Unlock is not deferred), so no later call gets in.
RingAppendCall(s) ==
    /\ ~ringMu
    /\ Len(appended) < MaxAppend
    /\ IF AppendPanics(ring)
       THEN /\ ringMu' = TRUE
            /\ ringRet' = [op |-> "Append", panic |-> TRUE]
            /\ UNCHANGED <<ring, appended>>
       ELSE /\ ring' = RingAppend(ring, s)
            /\ appended' = Append(appended, s)
            /\ ringRet' = [op |-> "Append", panic |-> FALSE]
            /\ UNCHANGED ringMu
    /\ UNCHANGED <<deltaVars, teeVars, loadVars, lkVars, humanVars, monVars, sessVars>>
    /\ UNCHANGED busVars

RingGetFromCall(seq) ==
    /\ ~ringMu
    /\ ringRet' = [op |-> "GetFrom", seq |-> seq,
                   out |-> RingGetFrom(ring, seq).out,
                   next |-> RingGetFrom(ring, seq).next]
    /\ UNCHANGED <<ring, ringMu, appended>>
    /\ UNCHANGED <<deltaVars, teeVars, loadVars, lkVars, humanVars, monVars, sessVars>>
    /\ UNCHANGED busVars

RingHeadCall ==
    /\ ~ringMu
    /\ ringRet' = [op |-> "Head", next |-> RingHead(ring)]
    /\ UNCHANGED <<ring, ringMu, appended>>
    /\ UNCHANGED <<deltaVars, teeVars, loadVars, lkVars, humanVars, monVars, sessVars>>
    /\ UNCHANGED busVars

\* cursor values offered to GetFrom: everything up to one past the largest next
Cursors == 0 .. (MaxAppend + 1)

InitRing ==
    /\ \E c \in 0 .. MaxCap : ring = newLogRing(c)
    /\ ringMu = FALSE
    /\ ringRet = NoRet
    /\ appended = <<>>
    /\ DeltaIdle
    /\ TeeIdle
    /\ LoadIdle
    /\ LkIdle
    /\ HumanIdle
    /\ BusIdle
    /\ MonIdle
    /\ SessIdle

NextRing ==
    \/ \E s \in Lines : RingAppendCall(s)
    \/ \E seq \in Cursors : RingGetFromCall(seq)
    \/ RingHeadCall

SpecRing == InitRing /\ [][NextRing]_vars

(***************************************************************************)
(* deltaSnap                                                               *)
(***************************************************************************)
\* the digest keys of the snapshots explored
Keys == {"d1", "d2"}

\* uint64 arithmetic on a word scaled down to the values 0 .. 2^WordBits - 1
UMod == 2 ^ WordBits
USub(a, b) == (a - b) % UMod

\* sql.NullString
NullSample == [Valid |-> FALSE, String |-> ""]
Samples == {NullSample, [Valid |-> TRUE, String |-> "SELECT 1"]}

DigestTextOf(k) == IF k = "d1" THEN "SELECT ?" ELSE "UPDATE t SET c = ?"

\* d1 is a digest the source may have captured a sample for, d2 one it never
\* has a sample for
SamplesOf(k) == IF k = "d1" THEN Samples ELSE {NullSample}

\* d1 is a SELECT: it sends rows and affects none; d2 is an UPDATE: it sends
\* no rows and affects some
RowsSentOf(k) == IF k = "d1" THEN 0 .. CMax ELSE {0}
RowsAffOf(k) == IF k = "d1" THEN {0} ELSE 0 .. CMax

\* the rows Snapshot() can scan for key k: Digest is the key itself
\* (snap[snapKey(d.Digest)] = d); samples and affs say which samples and
\* which rows-affected values the snapshots explored carry
DigestStats(k, samples, affs) ==
    [Digest : {k}, DigestText : {DigestTextOf(k)},
     QuerySample : samples \cap SamplesOf(k),
     CountStar : 0 .. CMax, SumRowsExam : 0 .. CMax, SumRowsSent : RowsSentOf(k),
     SumRowsAff : affs \cap RowsAffOf(k)]

\* the snapshots over Keys whose samples are drawn from samples and whose
\* rows-affected values are drawn from affs
Snapshots(samples, affs) ==
    UNION {{f \in [K -> UNION {DigestStats(k, samples, affs) : k \in Keys}] :
               \A k \in K : f[k].Digest = k} : K \in SUBSET Keys}

\* the entry deltaSnap builds: Digest and DigestText of the new entry, the
\* three deltas, every other field at its zero value
DeltaEntry(newv, dCount, dRowsExam, dRowsSent) ==
    [Digest |-> newv.Digest, DigestText |-> newv.DigestText,
     QuerySample |-> NullSample,
     CountStar |-> dCount, SumRowsExam |-> dRowsExam, SumRowsSent |-> dRowsSent,
     SumRowsAff |-> 0]

\* the guarded subtraction without its guard: plain uint64 subtraction
ClampedSubWraps(newc, oldc) == USub(newc, oldc)

\* dX := 0; if new >= old { dX = new - old }
ClampedSub(newc, oldc) == IF newc >= oldc THEN USub(newc, oldc) ELSE 0

\* a differ that keeps a key with unchanged counters when its rows affected
\* are non-zero or it has a sample
DeltaKeysByAnyField(o, n) ==
    {k \in DOMAIN n :
        \/ k \notin DOMAIN o
        \/ n[k].SumRowsAff # 0
        \/ n[k].QuerySample.Valid
        \/ ~ /\ n[k].CountStar = o[k].CountStar
             /\ n[k].SumRowsExam = o[k].SumRowsExam
             /\ n[k].SumRowsSent = o[k].SumRowsSent}

\* a differ that credits a newly observed key with nothing
NewKeyNoCredit(newv) == DeltaEntry(newv, 0, 0, 0)

\* new digest, treat entire counts as delta
NewKeyEntry(newv) ==
    DeltaEntry(newv, newv.CountStar, newv.SumRowsExam, newv.SumRowsSent)

\* a differ that, once some key of the old snapshot is gone from the new one,
\* gives every key of the new snapshot an entry
DeltaKeysGoneResets(o, n) ==
    {k \in DOMAIN n :
        \/ k \notin DOMAIN o
        \/ DOMAIN o \ DOMAIN n # {}
        \/ ~ /\ ClampedSub(n[k].CountStar, o[k].CountStar) = 0
             /\ ClampedSub(n[k].SumRowsExam, o[k].SumRowsExam) = 0
             /\ ClampedSub(n[k].SumRowsSent, o[k].SumRowsSent) = 0}

\* the keys of newSnap that deltaSnap gives an entry
DeltaKeys(o, n) ==
    {k \in DOMAIN n :
        \/ k \notin DOMAIN o
        \/ ~ /\ ClampedSub(n[k].CountStar, o[k].CountStar) = 0
             /\ ClampedSub(n[k].SumRowsExam, o[k].SumRowsExam) = 0
             /\ ClampedSub(n[k].SumRowsSent, o[k].SumRowsSent) = 0}

deltaSnap(o, n) ==
    [k \in DeltaKeys(o, n) |->
        IF k \in DOMAIN o
        THEN DeltaEntry(n[k], ClampedSub(n[k].CountStar, o[k].CountStar),
                              ClampedSub(n[k].SumRowsExam, o[k].SumRowsExam),
                              ClampedSub(n[k].SumRowsSent, o[k].SumRowsSent))
        ELSE NewKeyEntry(n[k])]

DeltaSnapCall ==
    /\ deltaOut = NoDelta
    /\ deltaOut' = [st |-> "done", out |-> deltaSnap(oldSnap, newSnap)]
    /\ UNCHANGED <<oldSnap, newSnap>>
    /\ UNCHANGED <<ringVars, teeVars, loadVars, lkVars, humanVars>>
    /\ UNCHANGED busVars
    /\ UNCHANGED <<monVars, sessVars>>

\* deltaSnap reads only the three counters of the old entries, so the old
\* snapshots carry no samples and no affected rows; the new ones carry every
\* sample and every rows-affected value
OldSnapshots == Snapshots({NullSample}, {0})
NewSnapshots == Snapshots(Samples, 0 .. CMax)

InitDelta ==
    /\ oldSnap \in OldSnapshots
    /\ newSnap \in NewSnapshots
    /\ deltaOut = NoDelta
    /\ TeeIdle
    /\ LoadIdle
    /\ LkIdle
    /\ HumanIdle
    /\ ring = newLogRing(GlobalRingCap)
    /\ ringMu = FALSE
    /\ ringRet = NoRet
    /\ appended = <<>>
    /\ BusIdle
    /\ MonIdle
    /\ SessIdle

NextDelta == DeltaSnapCall

SpecDelta == InitDelta /\ [][NextDelta]_vars

(***************************************************************************)
(* sseBroadcaster, logTeeWriter and the push-mode LogsSSEHandler           *)
(***************************************************************************)
\* the callers of logTeeWriter.Write: the sessions' loggers and the monitor's
Mon == "mon"

\* a session that has returned from its loop and has its deferred calls still
\* to run, by the branch of the select that returned
RetStates == {"ret_notify", "ret_heartbeat", "ret_write", "ret_closed"}

\* Broadcast calls that have taken b.mu so far: lines are numbered in the
\* order of the Writes, which t.mu serialises
BroadcastsBegun == IF wr.phase = "lock" THEN wr.line - 1 ELSE ring.next

RECURSIVE SumOver(_, _)
SumOver(f, S) == IF S = {} THEN 0
                 ELSE LET x == CHOOSE y \in S : TRUE IN f[x] + SumOver(f, S \ {x})

\* further calls of unsubscribe functions made so far
ExtraUnsubs == SumOver(extraUnsub, Sessions)

\* completed calls of the unsubscribe function of channel ch
UnsubDone(ch) ==
    extraUnsub[ch] + (IF pc[ch] \in {"disclogwait", "disclog", "done"} THEN 1 ELSE 0)

\* Subscribe has returned the channel of session i
Subscribed(i) == pc[i] \in {"hello", "loop", "disclogwait", "disclog", "done"} \cup RetStates

\* a send that puts the line into the channel whether or not it has room
TrySendUnbounded(q, line) == Append(q, line)

\* select { case ch <- message: default: } on a channel holding q
TrySend(q, line) == IF Len(q) < QueueCap THEN Append(q, line) ELSE q

\* a range over b.subs that stops at the first full channel
PendingAfterAbort(pending, ch, delivered) ==
    IF delivered THEN pending \ {ch} ELSE {}

\* a range over b.subs that tries a full channel again
PendingAfterRetry(pending, ch, delivered) ==
    IF delivered THEN pending \ {ch} ELSE pending

\* the channels left to range over once ch has been handled
PendingAfter(pending, ch, delivered) == pending \ {ch}

\* for ch := range b.subs
RangeOf(registered) == registered

\* a failed line write that returns without the deferred unsubscribe
ReturnFromLoopLeaky(branch) ==
    IF branch = "ret_write" THEN "disclogwait" ELSE branch

\* return from the loop: the deferred calls are still to run, unsubscribe
\* among them
ReturnFromLoop(branch) == branch

\* t.mu.Lock, the write-through, globalLogRing.Append(line); the caller then
\* goes on to t.bus.Broadcast(line) unless sseNoBus
TeeWriteBegin(c) ==
    /\ panicked = "none"
    /\ teeMu = "free"
    /\ ~ringMu
    /\ ring' = RingAppend(ring, ring.next + 1)
    /\ appended' = Append(appended, ring.next + 1)
    /\ ringRet' = [op |-> "Append", panic |-> FALSE]
    /\ IF sseNoBus
       THEN UNCHANGED <<teeMu, wr>>
       ELSE /\ teeMu' = c
            /\ wr' = [line |-> ring.next + 1, phase |-> "lock", pending |-> {}]
    /\ UNCHANGED <<ringMu, deltaVars, teeVars, loadVars, lkVars, humanVars, monVars, sessVars>>

\* Broadcast: b.mu.Lock()
BroadcastLock ==
    /\ panicked = "none"
    /\ wr.phase = "lock"
    /\ busMu = "free"
    /\ busMu' = teeMu
    /\ wr' = [wr EXCEPT !.phase = "send", !.pending = RangeOf(subs)]
    /\ UNCHANGED <<ringVars, deltaVars, teeVars, loadVars, lkVars, humanVars, monVars, sessVars, sseNoBus, subs, chq, chClosed, teeMu,
                   monLines, pc, ctxDone, panicked, extraUnsub, enq,
                   dropped, regAt, deq>>

\* Broadcast: one iteration of the range, the non-blocking send to ch
BroadcastSend(ch) ==
    /\ panicked = "none"
    /\ wr.phase = "send"
    /\ ch \in wr.pending
    /\ IF chClosed[ch]
       THEN /\ panicked' = "send on closed channel"
            /\ UNCHANGED <<chq, wr, enq, dropped>>
       ELSE LET q == TrySend(chq[ch], wr.line)
                delivered == q # chq[ch]
            IN  /\ chq' = [chq EXCEPT ![ch] = q]
                /\ wr' = [wr EXCEPT !.pending = PendingAfter(@, ch, delivered)]
                /\ enq' = IF delivered
                          THEN [enq EXCEPT ![ch] = Append(@, wr.line)] ELSE enq
                /\ dropped' = IF delivered
                              THEN dropped
                              ELSE [dropped EXCEPT ![ch] = @ \cup {wr.line}]
                /\ UNCHANGED panicked
    /\ UNCHANGED <<ringVars, deltaVars, teeVars, loadVars, lkVars, humanVars, monVars, sessVars, sseNoBus, subs, chClosed, busMu, teeMu,
                   monLines, pc, ctxDone, extraUnsub, regAt, deq>>

\* the pc of a session whose logger.Info has returned
AfterLog(p) == IF p = "connlog" THEN "subscribe" ELSE "done"

\* Broadcast: b.mu.Unlock(); Write returns and its deferred t.mu.Unlock runs
BroadcastUnlock ==
    /\ panicked = "none"
    /\ wr.phase = "send"
    /\ wr.pending = {}
    /\ busMu' = "free"
    /\ teeMu' = "free"
    /\ wr' = NoWrite
    /\ pc' = IF teeMu \in Sessions THEN [pc EXCEPT ![teeMu] = AfterLog(@)] ELSE pc
    \* when the deferred "disconnected" log returns the handler returns, and
    \* net/http cancels the request's context on return from the handler
    /\ ctxDone' = IF teeMu \in Sessions /\ pc[teeMu] = "disclog"
                  THEN [ctxDone EXCEPT ![teeMu] = TRUE] ELSE ctxDone
    /\ UNCHANGED <<ringVars, deltaVars, teeVars, loadVars, lkVars, humanVars, monVars, sessVars, sseNoBus, subs, chq, chClosed,
                   monLines, panicked, extraUnsub, enq, dropped,
                   regAt, deq>>

\* the monitor logs a line (an alert, an error, ...)
MonLog ==
    /\ monLines < MaxLog
    /\ TeeWriteBegin(Mon)
    /\ monLines' = monLines + 1
    /\ UNCHANGED <<sseNoBus, subs, chq, chClosed, busMu, pc, ctxDone, panicked, extraUnsub, enq, dropped, regAt, deq>>

\* a request whose ResponseWriter is an http.Flusher arrives in push mode:
\* logger.Info("sse client connected", ...)
SessConnectLog(i) ==
    /\ pc[i] = "idle"
    /\ ~sseNoBus
    /\ TeeWriteBegin(i)
    /\ pc' = [pc EXCEPT ![i] = "connlog"]
    /\ UNCHANGED <<sseNoBus, subs, chq, chClosed, busMu, monLines, ctxDone,
                   panicked, extraUnsub, enq, dropped, regAt, deq>>

\* ch, unsubscribe := broadcaster.Subscribe()
SessSubscribe(i) ==
    /\ panicked = "none"
    /\ pc[i] = "subscribe"
    /\ busMu = "free"
    /\ subs' = subs \cup {i}
    /\ regAt' = [regAt EXCEPT ![i] = BroadcastsBegun]
    /\ pc' = [pc EXCEPT ![i] = "hello"]
    /\ UNCHANGED <<ringVars, deltaVars, teeVars, loadVars, lkVars, humanVars, monVars, sessVars, sseNoBus, chq, chClosed, busMu, teeMu,
                   wr, monLines, ctxDone, panicked, extraUnsub, enq,
                   dropped, deq>>

\* the hello event; the results of fmt.Fprintf are not looked at, so the
\* session goes on into the loop whether or not the write succeeded
SessHello(i) ==
    /\ panicked = "none"
    /\ pc[i] = "hello"
    /\ pc' = [pc EXCEPT ![i] = "loop"]
    /\ UNCHANGED <<ringVars, deltaVars, teeVars, loadVars, lkVars, humanVars, monVars, sessVars, sseNoBus, subs, chq, chClosed, busMu,
                   teeMu, wr, monLines, ctxDone, panicked, extraUnsub,
                   enq, dropped, regAt, deq>>

\* the client goes away: the request context is cancelled. Nothing reads the
\* context before the loop, so a cancellation is first seen there
ClientDisconnect(i) ==
    /\ panicked = "none"
    /\ pc[i] = "loop"
    /\ ~ctxDone[i]
    /\ ctxDone' = [ctxDone EXCEPT ![i] = TRUE]
    /\ UNCHANGED <<ringVars, deltaVars, teeVars, loadVars, lkVars, humanVars, monVars, sessVars, sseNoBus, subs, chq, chClosed, busMu,
                   teeMu, wr, monLines, pc, panicked, extraUnsub, enq,
                   dropped, regAt, deq>>

\* case <-notify: return
SessNotify(i) ==
    /\ panicked = "none"
    /\ pc[i] = "loop"
    /\ ctxDone[i]
    /\ pc' = [pc EXCEPT ![i] = ReturnFromLoop("ret_notify")]
    /\ UNCHANGED <<ringVars, deltaVars, teeVars, loadVars, lkVars, humanVars, monVars, sessVars, sseNoBus, subs, chq, chClosed, busMu,
                   teeMu, wr, monLines, ctxDone, panicked, extraUnsub,
                   enq, dropped, regAt, deq>>

\* case <-ticker.C: write and flush the keep-alive comment, return on error
SessHeartbeat(i) ==
    /\ panicked = "none"
    /\ pc[i] = "loop"
    /\ \E ok \in BOOLEAN :
          pc' = IF ok THEN pc
                ELSE [pc EXCEPT ![i] = ReturnFromLoop("ret_heartbeat")]
    /\ UNCHANGED <<ringVars, deltaVars, teeVars, loadVars, lkVars, humanVars, monVars, sessVars, sseNoBus, subs, chq, chClosed, busMu,
                   teeMu, wr, monLines, ctxDone, panicked, extraUnsub, enq,
                   dropped, regAt, deq>>

\* a receive that leaves the line it returned in the channel
RecvRestKeeps(q) == q

\* the buffer of a channel after a receive from it
RecvRest(q) == Tail(q)

\* case line, ok := <-ch: return if closed, else write and flush the data
\* line, return on error
SessRecv(i) ==
    /\ panicked = "none"
    /\ pc[i] = "loop"
    /\ chq[i] # <<>> \/ chClosed[i]
    /\ IF chq[i] # <<>>
       THEN /\ chq' = [chq EXCEPT ![i] = RecvRest(@)]
            /\ deq' = [deq EXCEPT ![i] = Append(@, Head(chq[i]))]
            /\ \E ok \in BOOLEAN :
                  pc' = IF ok THEN pc
                        ELSE [pc EXCEPT ![i] = ReturnFromLoop("ret_write")]
       ELSE /\ pc' = [pc EXCEPT ![i] = ReturnFromLoop("ret_closed")]
            /\ UNCHANGED <<chq, deq>>
    /\ UNCHANGED <<ringVars, deltaVars, teeVars, loadVars, lkVars, humanVars, monVars, sessVars, sseNoBus, subs, chClosed, busMu, teeMu,
                   wr, monLines, ctxDone, panicked, extraUnsub, enq,
                   dropped, regAt>>

\* the unsubscribe function that never looks whether ch is still registered
unsubscribeNoCheck(ch) ==
    /\ busMu = "free"
    /\ subs' = subs \ {ch}
    /\ IF chClosed[ch]
       THEN panicked' = "close of closed channel" /\ UNCHANGED chClosed
       ELSE chClosed' = [chClosed EXCEPT ![ch] = TRUE] /\ UNCHANGED panicked

\* the function Subscribe returns: under b.mu, if ch is still registered,
\* delete it and close it
unsubscribe(ch) ==
    /\ busMu = "free"
    /\ IF ch \in subs
       THEN /\ subs' = subs \ {ch}
            /\ IF chClosed[ch]
               THEN panicked' = "close of closed channel" /\ UNCHANGED chClosed
               ELSE chClosed' = [chClosed EXCEPT ![ch] = TRUE] /\ UNCHANGED panicked
       ELSE UNCHANGED <<subs, chClosed, panicked>>

\* the deferred calls of the handler: ticker.Stop(), then unsubscribe()
SessUnsubscribe(i) ==
    /\ panicked = "none"
    /\ pc[i] \in RetStates
    /\ unsubscribe(i)
    /\ pc' = [pc EXCEPT ![i] = "disclogwait"]
    /\ UNCHANGED <<ringVars, deltaVars, teeVars, loadVars, lkVars, humanVars, monVars, sessVars, sseNoBus, chq, busMu, teeMu, wr,
                   monLines, ctxDone, extraUnsub, enq, dropped, regAt, deq>>

\* the deferred logger.Info("sse client disconnected", ...)
SessDisconnectLog(i) ==
    /\ pc[i] = "disclogwait"
    /\ TeeWriteBegin(i)
    /\ pc' = [pc EXCEPT ![i] = "disclog"]
    /\ UNCHANGED <<sseNoBus, subs, chq, chClosed, busMu, monLines, ctxDone,
                   panicked, extraUnsub, enq, dropped, regAt, deq>>

\* a further call of the unsubscribe function Subscribe returned for ch, by
\* whoever holds it, at any time after Subscribe
ExtraUnsubscribe(ch) ==
    /\ panicked = "none"
    /\ Subscribed(ch)
    /\ ExtraUnsubs < MaxExtraUnsub
    /\ unsubscribe(ch)
    /\ extraUnsub' = [extraUnsub EXCEPT ![ch] = @ + 1]
    /\ UNCHANGED <<ringVars, deltaVars, teeVars, loadVars, lkVars, humanVars, monVars, sessVars, sseNoBus, chq, busMu, teeMu, wr,
                   monLines, pc, ctxDone, enq, dropped, regAt, deq>>

\* main has built the broadcaster, the tee writer and globalLogRing; no
\* request has arrived
InitBus ==
    /\ ring = newLogRing(GlobalRingCap)
    /\ ringMu = FALSE
    /\ ringRet = NoRet
    /\ appended = <<>>
    /\ DeltaIdle
    /\ TeeIdle
    /\ LoadIdle
    /\ LkIdle
    /\ HumanIdle
    /\ sseNoBus = FALSE
    /\ subs = {}
    /\ chq = [c \in Sessions |-> <<>>]
    /\ chClosed = [c \in Sessions |-> FALSE]
    /\ busMu = "free"
    /\ teeMu = "free"
    /\ wr = NoWrite
    /\ monLines = 0
    /\ pc = [i \in Sessions |-> "idle"]
    /\ ctxDone = [i \in Sessions |-> FALSE]
    /\ panicked = "none"
    /\ extraUnsub = [c \in Sessions |-> 0]
    /\ enq = [c \in Sessions |-> <<>>]
    /\ dropped = [c \in Sessions |-> {}]
    /\ regAt = [c \in Sessions |-> 0]
    /\ deq = [c \in Sessions |-> <<>>]
    /\ MonIdle
    /\ SessIdle

BroadcastStep ==
    \/ BroadcastLock
    \/ \E ch \in Sessions : BroadcastSend(ch)
    \/ BroadcastUnlock

NextBus ==
    \/ MonLog
    \/ BroadcastLock
    \/ \E ch \in Sessions : BroadcastSend(ch)
    \/ BroadcastUnlock
    \/ \E i \in Sessions : SessConnectLog(i)
    \/ \E i \in Sessions : SessSubscribe(i)
    \/ \E i \in Sessions : SessHello(i)
    \/ \E i \in Sessions : ClientDisconnect(i)
    \/ \E i \in Sessions : SessNotify(i)
    \/ \E i \in Sessions : SessHeartbeat(i)
    \/ \E i \in Sessions : SessRecv(i)
    \/ \E i \in Sessions : SessUnsubscribe(i)
    \/ \E i \in Sessions : SessDisconnectLog(i)
    \/ \E ch \in Sessions : ExtraUnsubscribe(ch)

SpecBus == InitBus /\ [][NextBus]_vars

\* a Broadcast in flight is scheduled: the goroutine running it keeps running
FairSpecBus == SpecBus /\ WF_vars(BroadcastStep)

(***************************************************************************)
(* monitor.Run                                                             *)
(***************************************************************************)
\* number of timer ticks the monitor loop takes
MaxTicks == 2
\* timer ticks counted as dropped
MaxMissed == 1

\* uint64 multiplication on the scaled word
UMul(a, b) == (a * b) % UMod

\* the Config values explored: the bytes per row and the write threshold are
\* 0 or 1 byte, the read threshold also 2 bytes (more than any estimate
\* explored), the minimum bytes to print 1 byte
Configs ==
    [AvgRowRead : {0, 1}, AvgRowSent : {0, 1},
     ReadThreshold : {0, 1, 2}, WriteThreshold : {0, 1},
     MinPrintBytes : {1}]

\* the rows the Snapshot Source can hold for key k: a digest row has been
\* executed at least once; the SELECT d1 examines and sends rows and may
\* carry a sample, the UPDATE d2 examines rows and sends none
SourceRows(k) ==
    [Digest : {k}, DigestText : {DigestTextOf(k)},
     QuerySample : SamplesOf(k),
     CountStar : IF k = "d1" THEN {1} ELSE {1, 2},
     SumRowsExam : {0, 1},
     SumRowsSent : IF k = "d1" THEN {0, 1} ELSE {0},
     SumRowsAff : {0}]

\* what db.Snapshot can return when it succeeds
SourceSnapshots ==
    UNION {{f \in [K -> UNION {SourceRows(k) : k \in Keys}] :
               \A k \in K : f[k].Digest = k} : K \in SUBSET Keys}

\* br := d.SumRowsExam * AvgRowRead(); bw := d.SumRowsSent * AvgRowSent()
BytesRead(d, c) == UMul(d.SumRowsExam, c.AvgRowRead)
BytesWrite(d, c) == UMul(d.SumRowsSent, c.AvgRowSent)

\* if br == 0 && bw == 0 { continue }
Skipped(d, c) == BytesRead(d, c) = 0 /\ BytesWrite(d, c) = 0

\* text := d.DigestText, replaced by the sample if d.QuerySample is valid and
\* not empty
DisplayText(d) ==
    IF d.QuerySample.Valid /\ d.QuerySample.String # ""
    THEN d.QuerySample.String ELSE d.DigestText

\* o := offender{...}
Offender(d, c) ==
    [Digest |-> d.Digest, Text |-> DisplayText(d),
     BytesRead |-> BytesRead(d, c), BytesWrite |-> BytesWrite(d, c),
     RowsExamined |-> d.SumRowsExam, RowsSent |-> d.SumRowsSent,
     Count |-> d.CountStar]

\* if br >= ReadThreshold() || bw >= WriteThreshold()
OverThreshold(d, c) ==
    \/ BytesRead(d, c) >= c.ReadThreshold
    \/ BytesWrite(d, c) >= c.WriteThreshold

\* the Alert calls one iteration of the range over delta makes for entry d
AlertsFor(d, c) ==
    IF Skipped(d, c) THEN <<>>
    ELSE IF OverThreshold(d, c) THEN <<Offender(d, c)>> ELSE <<>>

\* a failed fetch that forgets the previous snapshot
PrevAfterFailedFetchReset(prev) == NoSnap

\* what prev is after a failed fetch: the continue leaves it alone
PrevAfterFailedFetch(prev) == prev

\* a startup step that fails would go on as if it had succeeded
AfterStartErrorGoesOn(step) == IF step = "ping" THEN "snapshot" ELSE "wait"

\* if err != nil { m.log.Error(...); return } after Ping and after the initial
\* Snapshot: Run returns
AfterStartError(step) == "returned"

\* m.reporter.Startup(m.configuration)
MonStartup ==
    /\ mon.pc = "start"
    /\ mon' = [mon EXCEPT !.pc = "ping", !.startups = @ + 1]
    /\ UNCHANGED <<ringVars, deltaVars, teeVars, loadVars, lkVars, humanVars, busVars, configuration, sessVars>>

\* m.db.Ping: on error the run logs it and returns
MonPing ==
    /\ mon.pc = "ping"
    /\ \/ mon' = [mon EXCEPT !.pc = "snapshot"]
       \/ mon' = [mon EXCEPT !.pc = AfterStartError("ping"), !.startErr = "ping"]
    /\ UNCHANGED <<ringVars, deltaVars, teeVars, loadVars, lkVars, humanVars, busVars, configuration, sessVars>>

\* prev, err := m.db.Snapshot(ctx): on error the run logs it and returns;
\* otherwise the ticker is started and the loop entered
MonInitialSnapshot ==
    /\ mon.pc = "snapshot"
    /\ \/ \E s \in SourceSnapshots :
             mon' = [mon EXCEPT !.pc = "wait", !.prev = s, !.lastOk = s]
       \/ mon' = [mon EXCEPT !.pc = AfterStartError("snapshot"),
                              !.startErr = "snapshot"]
    /\ UNCHANGED <<ringVars, deltaVars, teeVars, loadVars, lkVars, humanVars, busVars, configuration, sessVars>>

\* the ticker made by time.NewTicker and the stop channel registered with
\* signal.Notify exist from just before the loop until Run returns
LoopRuns == mon.pc \in {"wait", "fetching", "range"}

\* when the timer and the senders of stop requests may act: while the loop
\* waits or a fetch is unanswered, and in a run under overload also while a
\* tick body runs
EnvMayAct ==
    \/ mon.pc \in {"wait", "fetching"}
    \/ mon.overload /\ mon.pc = "range"

\* the interval has elapsed: the runtime sends the time on ticker.C, a channel
\* of capacity 1, without blocking; a tick that finds the channel full is
\* dropped. Without overload the timer only fires into an empty channel
TickerFires ==
    /\ LoopRuns /\ EnvMayAct
    /\ IF mon.tickQ = 0
       THEN mon' = [mon EXCEPT !.tickQ = 1]
       ELSE /\ mon.overload
            /\ mon.missed < MaxMissed
            /\ mon' = [mon EXCEPT !.missed = @ + 1]
    /\ UNCHANGED <<ringVars, deltaVars, teeVars, loadVars, lkVars, humanVars, busVars, configuration, sessVars>>

\* SIGINT or SIGTERM is delivered to the stop channel
MonSignal ==
    /\ LoopRuns /\ EnvMayAct
    /\ mon.stop = "none"
    /\ mon' = [mon EXCEPT !.stop = "signal"]
    /\ UNCHANGED <<ringVars, deltaVars, teeVars, loadVars, lkVars, humanVars, busVars, configuration, sessVars>>

\* the caller of Run cancels ctx
MonCtxCancel ==
    /\ LoopRuns /\ EnvMayAct
    /\ mon.stop = "none"
    /\ mon' = [mon EXCEPT !.stop = "ctx"]
    /\ UNCHANGED <<ringVars, deltaVars, teeVars, loadVars, lkVars, humanVars, busVars, configuration, sessVars>>

\* a loop that would leave in the middle of the range over delta
StopPointAnywhere(p) == p \in {"wait", "range"}

\* where the loop can take case <-ctx.Done() or case <-stop: in its select
StopPoint(p) == p = "wait"

\* case <-ticker.C: mu.Lock(), the fetch succeeds (it cannot once ctx is
\* cancelled), delta := deltaSnap(prev, curr)
MonTickFetched ==
    /\ mon.pc = "wait"
    /\ mon.tickQ = 1
    /\ mon.ticks < MaxTicks
    /\ mon.stop # "ctx"
    /\ \E s \in SourceSnapshots :
          mon' = [mon EXCEPT !.pc = "range", !.curr = s, !.tickQ = 0,
                             !.lastOk = s,
                             !.delta = deltaSnap(mon.prev, s),
                             !.todo = DOMAIN deltaSnap(mon.prev, s),
                             !.alerts = <<>>,
                             !.ticks = @ + 1]
    /\ UNCHANGED <<ringVars, deltaVars, teeVars, loadVars, lkVars, humanVars, busVars, configuration, sessVars>>

\* case <-ticker.C: mu.Lock(), the fetch fails: log, mu.Unlock(), continue
MonTickFetchFailed ==
    /\ mon.pc = "wait"
    /\ mon.tickQ = 1
    /\ mon.ticks < MaxTicks
    /\ mon' = [mon EXCEPT !.prev = PrevAfterFailedFetch(@), !.tickQ = 0,
                          !.ticks = @ + 1, !.fails = @ + 1]
    /\ UNCHANGED <<ringVars, deltaVars, teeVars, loadVars, lkVars, humanVars, busVars, configuration, sessVars>>

\* case <-ticker.C: mu.Lock(), and the Snapshot Source does not answer:
\* m.db.Snapshot(ctx) is given the context of Run and blocks
MonTickFetchHangs ==
    /\ mon.pc = "wait"
    /\ mon.tickQ = 1
    /\ mon.ticks < MaxTicks
    /\ mon.stop # "ctx"
    /\ mon' = [mon EXCEPT !.pc = "fetching", !.tickQ = 0, !.ticks = @ + 1]
    /\ UNCHANGED <<ringVars, deltaVars, teeVars, loadVars, lkVars, humanVars, busVars, configuration, sessVars>>

\* ctx is cancelled while Snapshot blocks: QueryContext returns the context's
\* error, the tick logs it, unlocks and continues
MonFetchCancelled ==
    /\ mon.pc = "fetching"
    /\ mon.stop = "ctx"
    /\ mon' = [mon EXCEPT !.pc = "wait", !.prev = PrevAfterFailedFetch(@),
                          !.fails = @ + 1]
    /\ UNCHANGED <<ringVars, deltaVars, teeVars, loadVars, lkVars, humanVars, busVars, configuration, sessVars>>

\* one iteration of for _, d := range delta, in the order the map range
\* happens to take
MonRangeStep(k) ==
    /\ mon.pc = "range"
    /\ k \in mon.todo
    /\ mon' = [mon EXCEPT !.todo = @ \ {k},
                          !.alerts = @ \o AlertsFor(mon.delta[k], configuration)]
    /\ UNCHANGED <<ringVars, deltaVars, teeVars, loadVars, lkVars, humanVars, busVars, configuration, sessVars>>

\* the range is over: prev = curr; mu.Unlock(); curr, delta and the record of
\* this tick's Alert calls end with the iteration
MonTickEnd ==
    /\ mon.pc = "range"
    /\ mon.todo = {}
    /\ mon' = [mon EXCEPT !.pc = "wait", !.prev = mon.curr, !.curr = NoSnap,
                          !.delta = NoSnap, !.alerts = <<>>]
    /\ UNCHANGED <<ringVars, deltaVars, teeVars, loadVars, lkVars, humanVars, busVars, configuration, sessVars>>

\* case <-ctx.Done() or case <-stop: break loop, m.db.Close(),
\* m.reporter.Shutdown()
MonStop ==
    /\ StopPoint(mon.pc)
    /\ mon.stop # "none"
    /\ mon' = [mon EXCEPT !.pc = "stopped", !.closes = @ + 1,
                          !.shutdowns = @ + 1]
    /\ UNCHANGED <<ringVars, deltaVars, teeVars, loadVars, lkVars, humanVars, busVars, configuration, sessVars>>

\* Run has returned to main: the HTTP server is shut down, main returns and
\* its deferred client.Close() runs
MainReturn ==
    /\ mon.pc \in {"stopped", "returned"}
    /\ ~mon.exited
    /\ mon' = [mon EXCEPT !.exited = TRUE, !.closes = @ + 1]
    /\ UNCHANGED <<ringVars, deltaVars, teeVars, loadVars, lkVars, humanVars, busVars, configuration, sessVars>>

\* main has loaded the configuration and built the monitor; Run is about to
\* be called
InitMon ==
    /\ configuration \in Configs
    /\ mon = [MonOff EXCEPT !.pc = "start"]
    /\ ring = newLogRing(GlobalRingCap)
    /\ ringMu = FALSE
    /\ ringRet = NoRet
    /\ appended = <<>>
    /\ DeltaIdle
    /\ TeeIdle
    /\ LoadIdle
    /\ LkIdle
    /\ HumanIdle
    /\ BusIdle
    /\ SessIdle

NextMon ==
    \/ MonStartup
    \/ MonPing
    \/ MonInitialSnapshot
    \/ MonTickFetched
    \/ MonTickFetchFailed
    \/ \E k \in Keys : MonRangeStep(k)
    \/ MonTickEnd
    \/ MonStop
    \/ TickerFires
    \/ MonSignal
    \/ MonCtxCancel
    \/ MonTickFetchHangs
    \/ MonFetchCancelled
    \/ MainReturn

SpecMon == InitMon /\ [][NextMon]_vars

\* every value of the scaled word
Word == 0 .. (UMod - 1)

\* configurations with any bytes per row and thresholds of 1 byte or of the
\* largest value of the word
WordConfigs ==
    [AvgRowRead : Word, AvgRowSent : Word,
     ReadThreshold : {1, UMod - 1}, WriteThreshold : {1, UMod - 1},
     MinPrintBytes : {1}]

\* snapshots of one digest, new since the previous snapshot, with any number
\* of rows examined and sent
WordSnapshots ==
    {[k \in {"d1"} |-> r] :
        r \in [Digest : {"d1"}, DigestText : {DigestTextOf("d1")},
               QuerySample : {NullSample}, CountStar : {1},
               SumRowsExam : Word, SumRowsSent : Word, SumRowsAff : {0}]}

\* the loop has fetched the snapshot of a tick and computed its delta: the
\* range over delta is about to start
InitEst ==
    /\ configuration \in WordConfigs
    /\ \E s \in WordSnapshots :
          mon = [MonOff EXCEPT !.pc = "range", !.curr = s, !.lastOk = s,
                               !.startups = 1,
                               !.delta = deltaSnap(NoSnap, s),
                               !.todo = DOMAIN deltaSnap(NoSnap, s),
                               !.ticks = 1]
    /\ ring = newLogRing(GlobalRingCap)
    /\ ringMu = FALSE
    /\ ringRet = NoRet
    /\ appended = <<>>
    /\ DeltaIdle
    /\ TeeIdle
    /\ LoadIdle
    /\ LkIdle
    /\ HumanIdle
    /\ BusIdle
    /\ SessIdle

NextEst ==
    \/ \E k \in Keys : MonRangeStep(k)
    \/ MonTickEnd

SpecEst == InitEst /\ [][NextEst]_vars

\* the one configuration of the runs under overload: every non-zero estimate
\* alerts
LoopConfigs ==
    {[AvgRowRead |-> 1, AvgRowSent |-> 1, ReadThreshold |-> 1,
      WriteThreshold |-> 1, MinPrintBytes |-> 1]}

\* Run is about to be called in a process where tick bodies can take longer
\* than the interval
InitLoop ==
    /\ configuration \in LoopConfigs
    /\ mon = [MonOff EXCEPT !.pc = "start", !.overload = TRUE]
    /\ ring = newLogRing(GlobalRingCap)
    /\ ringMu = FALSE
    /\ ringRet = NoRet
    /\ appended = <<>>
    /\ DeltaIdle
    /\ TeeIdle
    /\ LoadIdle
    /\ LkIdle
    /\ HumanIdle
    /\ BusIdle
    /\ SessIdle

NextLoop == NextMon

SpecLoop == InitLoop /\ [][NextLoop]_vars

\* the goroutine of Run keeps running: whatever step it can take, it takes.
\* The timer, the senders of stop requests and the Snapshot Source owe nothing
FairSpecLoop ==
    /\ SpecLoop
    /\ WF_vars(MonStartup \/ MonPing \/ MonInitialSnapshot)
    /\ WF_vars(MonTickFetched \/ MonTickFetchFailed \/ MonTickFetchHangs \/ MonStop)
    /\ WF_vars(\E k \in Keys : MonRangeStep(k))
    /\ WF_vars(MonTickEnd)
    /\ WF_vars(MonFetchCancelled)

(***************************************************************************)
(* LogsSSEHandler, one call followed from the request to the return, in    *)
(* either mode, with the writes it attempts on its client connection       *)
(***************************************************************************)
\* heartbeat ticks the followed session takes
MaxBeats == 1
\* poll ticks the followed session takes
MaxPolls == 2
\* log lines written by the rest of the process while the session runs
MaxSessLog == 2

\* durations are counted in milliseconds
DefaultHeartbeat == 15000
MinHeartbeat == 100
MaxHeartbeat == 300000

\* the session followed; its subscriber channel is chq[Sess]
Sess == "s1"

\* milliseconds of the unit suffixes time.ParseDuration knows, of those used
UnitMs(u) == CASE u = "ms" -> 1
               [] u = "s" -> 1000
               [] u = "m" -> 60000
               [] u = "h" -> 3600000
               [] OTHER -> 0

\* the values of the heartbeat query parameter explored: not given, "abc",
\* "10" (no unit), "0", "-5s", "99ms", "100ms", "1s", "5m", "301s", "1h"
Query(neg, n, unit) == [given |-> TRUE, neg |-> neg, n |-> n, unit |-> unit]
HeartbeatQueries ==
    {NoQuery, Query(FALSE, -1, "abc"), Query(FALSE, 10, ""), Query(FALSE, 0, ""),
     Query(TRUE, 5, "s"), Query(FALSE, 99, "ms"), Query(FALSE, 100, "ms"),
     Query(FALSE, 1, "s"), Query(FALSE, 5, "m"), Query(FALSE, 301, "s"),
     Query(FALSE, 1, "h")}

\* time.ParseDuration: a signed number with a unit suffix, or "0"; anything
\* else is an error
ParseDuration(q) ==
    IF q.n >= 0 /\ (UnitMs(q.unit) # 0 \/ (q.unit = "" /\ q.n = 0))
    THEN [err |-> FALSE, d |-> (IF q.neg THEN -1 ELSE 1) * q.n * UnitMs(q.unit)]
    ELSE [err |-> TRUE, d |-> 0]

\* the push-mode period without the clamp
PushHeartbeatNoClamp(q) ==
    IF q.given /\ ~ParseDuration(q).err THEN ParseDuration(q).d ELSE DefaultHeartbeat

\* poll mode: heartbeat := 15s, replaced by the clamped query value if the
\* query is not empty and parses
PollHeartbeat(q) ==
    IF q.given /\ ~ParseDuration(q).err
    THEN LET d == ParseDuration(q).d IN
         IF d < MinHeartbeat THEN MinHeartbeat
         ELSE IF d > MaxHeartbeat THEN MaxHeartbeat ELSE d
    ELSE DefaultHeartbeat

\* push mode: the same computation in the push branch of the handler
PushHeartbeat(q) ==
    IF q.given /\ ~ParseDuration(q).err
    THEN LET d == ParseDuration(q).d IN
         IF d < MinHeartbeat THEN MinHeartbeat
         ELSE IF d > MaxHeartbeat THEN MaxHeartbeat ELSE d
    ELSE DefaultHeartbeat

\* one attempt to write a unit to the client: it succeeds iff the connection
\* still takes writes
WriteUnit(unit, line, conn) == <<[unit |-> unit, line |-> line, ok |-> conn]>>

\* a handler that writes no hello event
HelloWriteNone(conn) == <<>>

\* fmt.Fprintf(w, "event: hello\n"); fmt.Fprintf(w, "data: ...\n\n");
\* flusher.Flush()
HelloWrite(conn) == WriteUnit("hello", 0, conn)

\* the variables of the broadcaster model the followed session does not use
busRest == <<busMu, teeMu, wr, pc, ctxDone, panicked, extraUnsub, enq,
             dropped, regAt, deq>>

\* a complete logTeeWriter.Write of one line, from t.mu.Lock to its return:
\* the line is appended to globalLogRing and, in push mode, broadcast
WriteLine ==
    /\ ring' = RingAppend(ring, ring.next + 1)
    /\ appended' = Append(appended, ring.next + 1)
    /\ ringRet' = [op |-> "Append", panic |-> FALSE]
    /\ chq' = IF sseNoBus THEN chq
              ELSE [c \in Sessions |->
                       IF c \in subs THEN TrySend(chq[c], ring.next + 1) ELSE chq[c]]
    /\ UNCHANGED ringMu

\* the request arrives. A ResponseWriter that is no http.Flusher gets a 500
\* and the handler returns; otherwise the "connected" line is logged, push
\* mode subscribes, and the heartbeat period is computed and handed to
\* time.NewTicker
SessEnter ==
    /\ sess.pc = "request"
    /\ IF ~sess.flusher
       THEN /\ sess' = [sess EXCEPT !.pc = "rejected"]
            /\ UNCHANGED <<ringVars, subs, chq>>
       ELSE /\ WriteLine
            /\ subs' = IF sseNoBus THEN subs ELSE subs \cup {Sess}
            /\ sess' = [sess EXCEPT !.pc = "hello",
                                    !.heartbeat = IF sseNoBus
                                                  THEN PollHeartbeat(sess.query)
                                                  ELSE PushHeartbeat(sess.query)]
    /\ UNCHANGED <<deltaVars, teeVars, loadVars, lkVars, humanVars, monVars, sseNoBus, chClosed, monLines, busRest>>

\* the hello event; the results of the writes are not looked at
SessHelloWrite ==
    /\ sess.pc = "hello"
    /\ sess' = [sess EXCEPT !.out = @ \o HelloWrite(sess.connUp),
                            !.pc = IF sseNoBus THEN "head" ELSE "loop"]
    /\ UNCHANGED <<ringVars, deltaVars, teeVars, loadVars, lkVars, humanVars, monVars, sseNoBus, subs, chq, chClosed,
                   monLines, busRest>>

\* a cursor that starts at the oldest line the ring still holds
ConnectCursorBase(r) == r.base

\* seq := globalLogRing.Head(): the cursor a poll-mode session starts with
ConnectCursor(r) == RingHead(r)

\* poll mode: seq := globalLogRing.Head()
SessHead ==
    /\ sess.pc = "head"
    /\ sess' = [sess EXCEPT !.seq = ConnectCursor(ring),
                            !.connectHead = RingHead(ring), !.pc = "loop"]
    /\ ringRet' = [op |-> "Head", next |-> RingHead(ring)]
    /\ UNCHANGED <<ring, ringMu, appended, deltaVars, teeVars, loadVars, lkVars, humanVars, monVars, sseNoBus, subs,
                   chq, chClosed, monLines, busRest>>

\* case <-notify: return
SessDone ==
    /\ sess.pc = "loop"
    /\ sess.ctxDone
    /\ sess' = [sess EXCEPT !.pc = "return"]
    /\ UNCHANGED <<ringVars, deltaVars, teeVars, loadVars, lkVars, humanVars, monVars, sseNoBus, subs, chq, chClosed,
                   monLines, busRest>>

\* case <-ticker.C (push) or <-hb.C (poll): the keep-alive comment is written
\* and flushed; return on error
SessBeat ==
    /\ sess.pc = "loop"
    /\ sess.beats < MaxBeats
    /\ sess' = [sess EXCEPT !.out = @ \o WriteUnit("keepalive", 0, sess.connUp),
                            !.beats = @ + 1,
                            !.pc = IF sess.connUp THEN "loop" ELSE "return"]
    /\ UNCHANGED <<ringVars, deltaVars, teeVars, loadVars, lkVars, humanVars, monVars, sseNoBus, subs, chq, chClosed,
                   monLines, busRest>>

\* push mode, case line, ok := <-ch: return if the channel is closed, else
\* write and flush the data line; return on error
SessLine ==
    /\ sess.pc = "loop"
    /\ ~sseNoBus
    /\ chq[Sess] # <<>> \/ chClosed[Sess]
    /\ IF chq[Sess] # <<>>
       THEN /\ chq' = [chq EXCEPT ![Sess] = Tail(@)]
            /\ sess' = [sess EXCEPT
                           !.out = @ \o WriteUnit("data", Head(chq[Sess]), sess.connUp),
                           !.pc = IF sess.connUp THEN "loop" ELSE "return"]
       ELSE /\ sess' = [sess EXCEPT !.pc = "return"]
            /\ UNCHANGED chq
    /\ UNCHANGED <<ringVars, deltaVars, teeVars, loadVars, lkVars, humanVars, monVars, sseNoBus, subs, chClosed,
                   monLines, busRest>>

\* poll mode, case <-poll.C: lines, next := globalLogRing.GetFrom(seq)
SessPoll ==
    /\ sess.pc = "loop"
    /\ sseNoBus
    /\ sess.polls < MaxPolls
    /\ sess' = [sess EXCEPT !.lines = RingGetFrom(ring, sess.seq).out,
                            !.got = RingGetFrom(ring, sess.seq).out,
                            !.next = RingGetFrom(ring, sess.seq).next,
                            !.polls = @ + 1,
                            !.pc = "lines"]
    /\ ringRet' = [op |-> "GetFrom", seq |-> sess.seq,
                   out |-> RingGetFrom(ring, sess.seq).out,
                   next |-> RingGetFrom(ring, sess.seq).next]
    /\ UNCHANGED <<ring, ringMu, appended, deltaVars, teeVars, loadVars, lkVars, humanVars, monVars, sseNoBus, subs,
                   chq, chClosed, monLines, busRest>>

\* a poll loop that leaves its cursor where it was
CursorStays(seq, next) == seq

\* seq = next, once the range over the returned lines is through
CursorAfterPoll(seq, next) == next

\* poll mode, one iteration of for _, line := range lines: write and flush
\* the data line, return on error; after the last one seq = next
SessPollLine ==
    /\ sess.pc = "lines"
    /\ IF sess.lines = <<>>
       THEN sess' = [sess EXCEPT !.seq = CursorAfterPoll(sess.seq, sess.next),
                                 !.got = <<>>, !.pc = "loop"]
       ELSE sess' = [sess EXCEPT
                        !.out = @ \o WriteUnit("data", Head(sess.lines), sess.connUp),
                        !.lines = Tail(@),
                        !.pc = IF sess.connUp THEN "lines" ELSE "return"]
    /\ UNCHANGED <<ringVars, deltaVars, teeVars, loadVars, lkVars, humanVars, monVars, sseNoBus, subs, chq, chClosed,
                   monLines, busRest>>

\* the deferred calls: the tickers are stopped, push mode unsubscribes, the
\* "disconnected" line is logged; the handler returns and net/http cancels
\* the request's context
SessReturn ==
    /\ sess.pc = "return"
    /\ subs' = subs \ {Sess}
    /\ chClosed' = IF Sess \in subs THEN [chClosed EXCEPT ![Sess] = TRUE] ELSE chClosed
    /\ ring' = RingAppend(ring, ring.next + 1)
    /\ appended' = Append(appended, ring.next + 1)
    /\ ringRet' = [op |-> "Append", panic |-> FALSE]
    /\ chq' = IF sseNoBus THEN chq
              ELSE [c \in Sessions |->
                       IF c \in subs \ {Sess}
                       THEN TrySend(chq[c], ring.next + 1) ELSE chq[c]]
    /\ sess' = [sess EXCEPT !.pc = "done", !.tickersStopped = TRUE,
                            !.ctxDone = TRUE]
    /\ UNCHANGED <<ringMu, deltaVars, teeVars, loadVars, lkVars, humanVars, monVars, sseNoBus, monLines, busRest>>

\* another goroutine (the monitor, another session) logs a line
OtherLog ==
    /\ monLines < MaxSessLog
    /\ WriteLine
    /\ monLines' = monLines + 1
    /\ UNCHANGED <<deltaVars, teeVars, loadVars, lkVars, humanVars, monVars, sseNoBus, subs, chClosed, busRest, sessVars>>

\* the client connection stops taking writes: every later write fails
ConnBreak ==
    /\ sess.pc \in {"hello", "head", "loop", "lines"}
    /\ sess.connUp
    /\ sess' = [sess EXCEPT !.connUp = FALSE]
    /\ UNCHANGED <<ringVars, deltaVars, teeVars, loadVars, lkVars, humanVars, monVars, sseNoBus, subs, chq, chClosed,
                   monLines, busRest>>

\* the request's context is cancelled: the client went away or the server
\* shuts down
CtxCancel ==
    /\ sess.pc \in {"hello", "head", "loop", "lines"}
    /\ ~sess.ctxDone
    /\ sess' = [sess EXCEPT !.ctxDone = TRUE]
    /\ UNCHANGED <<ringVars, deltaVars, teeVars, loadVars, lkVars, humanVars, monVars, sseNoBus, subs, chq, chClosed,
                   monLines, busRest>>

\* the process runs in one of the two modes; a request arrives with some
\* ResponseWriter and some heartbeat query
InitSess ==
    /\ ring = newLogRing(GlobalRingCap)
    /\ ringMu = FALSE
    /\ ringRet = NoRet
    /\ appended = <<>>
    /\ DeltaIdle
    /\ TeeIdle
    /\ LoadIdle
    /\ LkIdle
    /\ HumanIdle
    /\ MonIdle
    /\ sseNoBus \in BOOLEAN
    /\ subs = {}
    /\ chq = [c \in Sessions |-> <<>>]
    /\ chClosed = [c \in Sessions |-> FALSE]
    /\ busMu = "free"
    /\ teeMu = "free"
    /\ wr = NoWrite
    /\ monLines = 0
    /\ pc = [i \in Sessions |-> "off"]
    /\ ctxDone = [i \in Sessions |-> FALSE]
    /\ panicked = "none"
    /\ extraUnsub = [c \in Sessions |-> 0]
    /\ enq = [c \in Sessions |-> <<>>]
    /\ dropped = [c \in Sessions |-> {}]
    /\ regAt = [c \in Sessions |-> 0]
    /\ deq = [c \in Sessions |-> <<>>]
    /\ \E f \in BOOLEAN, q \in HeartbeatQueries :
          sess = [SessOff EXCEPT !.pc = "request", !.flusher = f, !.query = q]

NextSess ==
    \/ SessEnter
    \/ SessHelloWrite
    \/ SessHead
    \/ SessDone
    \/ SessBeat
    \/ SessLine
    \/ SessPoll
    \/ SessPollLine
    \/ SessReturn
    \/ OtherLog
    \/ ConnBreak
    \/ CtxCancel

SpecSess == InitSess /\ [][NextSess]_vars

\* the handler's goroutine keeps running, and select, which picks among its
\* ready cases at random, does not pass over the Done case for ever
FairSpecSess ==
    /\ SpecSess
    /\ WF_vars(SessEnter) /\ WF_vars(SessHelloWrite) /\ WF_vars(SessHead)
    /\ WF_vars(SessPollLine) /\ WF_vars(SessReturn)
    /\ SF_vars(SessDone)

(***************************************************************************)
(* logTeeWriter.Write, byte by byte: the buffer t.buf shared by all callers *)
(* and the lines cut out of it.  A byte is a letter, CR or LF; a line is a  *)
(* sequence of bytes.                                                       *)
(***************************************************************************)
LF == "LF"
CR == "CR"

\* the goroutines that log through the writer
Writers == {"w1", "w2"}

\* what a goroutine has to write: one or two newline-terminated lines, one of
\* them possibly empty or ending in CR
Messages ==
    {<<"a", LF>>, <<"a", "b", LF>>, <<"b", CR, LF>>, <<LF, "a", LF>>,
     <<"a", LF, "b", LF>>}

\* bytes.IndexByte(data, '\n'), 1-based; 0 when there is none
IndexLF(data) ==
    IF \E i \in 1 .. Len(data) : data[i] = LF
    THEN CHOOSE i \in 1 .. Len(data) :
             data[i] = LF /\ \A j \in 1 .. (i - 1) : data[j] # LF
    ELSE 0

\* if len(line) > 0 && line[len(line)-1] == '\r' { line = line[:len(line)-1] }
TrimCR(line) ==
    IF Len(line) > 0 /\ line[Len(line)] = CR
    THEN SubSeq(line, 1, Len(line) - 1) ELSE line

\* the for loop of Write over the buffered bytes: the non-empty lines it
\* emits, in order, and the bytes left in the buffer
RECURSIVE ScanLines(_)
ScanLines(data) ==
    IF IndexLF(data) = 0 THEN [lines |-> <<>>, rest |-> data]
    ELSE LET i == IndexLF(data)
             line == TrimCR(SubSeq(data, 1, i - 1))
             r == ScanLines(SubSeq(data, i + 1, Len(data)))
         IN  [lines |-> (IF line # <<>> THEN <<line>> ELSE <<>>) \o r.lines,
              rest |-> r.rest]

\* globalLogRing.Append(line) for each emitted line, in order
RECURSIVE RingAppendAll(_, _)
RingAppendAll(r, lines) ==
    IF lines = <<>> THEN r
    ELSE RingAppendAll(RingAppend(r, Head(lines)), Tail(lines))

\* if !sseNoBus && t.bus != nil { t.bus.Broadcast(line) }: the Broadcast
\* calls made for the emitted lines (main always hands the writer a bus)
Broadcasts(lines) == IF ~sseNoBus THEN lines ELSE <<>>

\* one call Write(p) by goroutine w, from t.mu.Lock to the deferred Unlock: p
\* is the next n bytes w has to write. The bytes join t.buf, and every line
\* completed in t.buf is appended to the ring and broadcast. part and written
\* record what w itself has written: the bytes of its unfinished line and the
\* non-empty lines it has finished, in the order they were finished
TeeWrite(w, n) ==
    /\ w \in DOMAIN tee.todo
    /\ n \in 1 .. Len(tee.todo[w])
    /\ LET p == SubSeq(tee.todo[w], 1, n)
           s == ScanLines(tee.buf \o p)
           own == ScanLines(tee.part[w] \o p)
       IN  /\ ring' = RingAppendAll(ring, s.lines)
           /\ appended' = appended \o s.lines
           /\ ringRet' = IF s.lines = <<>> THEN ringRet
                         ELSE [op |-> "Append", panic |-> FALSE]
           /\ tee' = [tee EXCEPT
                         !.buf = s.rest,
                         !.todo[w] = SubSeq(@, n + 1, Len(@)),
                         !.part[w] = own.rest,
                         !.written = @ \o own.lines,
                         !.bcast = @ \o Broadcasts(s.lines)]
    /\ UNCHANGED <<ringMu, deltaVars, loadVars, lkVars, humanVars, busVars, monVars, sessVars>>

\* the process has started: the mode is fixed, the buffer is empty, each
\* goroutine is about to log its message
InitTee ==
    /\ tee \in [buf : {<<>>}, todo : [Writers -> Messages],
                part : {[w \in Writers |-> <<>>]}, written : {<<>>},
                bcast : {<<>>}]
    /\ ring = newLogRing(GlobalRingCap)
    /\ ringMu = FALSE
    /\ ringRet = NoRet
    /\ appended = <<>>
    /\ DeltaIdle
    /\ LoadIdle
    /\ LkIdle
    /\ HumanIdle
    /\ sseNoBus \in BOOLEAN
    /\ subs = {}
    /\ chq = [c \in Sessions |-> <<>>]
    /\ chClosed = [c \in Sessions |-> FALSE]
    /\ busMu = "free"
    /\ teeMu = "free"
    /\ wr = NoWrite
    /\ monLines = 0
    /\ pc = [i \in Sessions |-> "off"]
    /\ ctxDone = [i \in Sessions |-> FALSE]
    /\ panicked = "none"
    /\ extraUnsub = [c \in Sessions |-> 0]
    /\ enq = [c \in Sessions |-> <<>>]
    /\ dropped = [c \in Sessions |-> {}]
    /\ regAt = [c \in Sessions |-> 0]
    /\ deq = [c \in Sessions |-> <<>>]
    /\ MonIdle
    /\ SessIdle

NextTee == \E w \in Writers : \E n \in 1 .. Len(tee.todo[w]) : TeeWrite(w, n)

SpecTee == InitTee /\ [][NextTee]_vars

(***************************************************************************)
(* LoadConfig, called once by main before any flag is parsed: the settings  *)
(* threshold (legacy), read-threshold, write-threshold, avg-read-bytes and  *)
(* read-rows-threshold.  A string is a number followed by a unit suffix, or *)
(* the empty string.                                                        *)
(***************************************************************************)
DefaultAvgRowRead == 200

EmptyStr == [empty |-> TRUE, n |-> 0, suffix |-> ""]
Str(n, suffix) == [empty |-> FALSE, n |-> n, suffix |-> suffix]

DefaultThresholdStr == Str(5, "MB")
DefaultReadThresholdStr == Str(1, "MB")
DefaultWriteThresholdStr == Str(1, "MB")

\* parseBytesFlag(s) for a string that parses: the number times the
\* multiplier of its suffix
parseBytesFlag(s) ==
    s.n * (CASE s.suffix = "MB" -> 1024 * 1024
             [] s.suffix = "M" -> 1000 * 1000
             [] s.suffix = "KB" -> 1024
             [] s.suffix = "K" -> 1000
             [] OTHER -> 1)

\* strconv.ParseUint(s, 10, 64) for a string of digits
ParseUint(s) == s.n

\* a flag the command line does not give, and one it gives with value v
NotGiven == [set |-> FALSE, val |-> EmptyStr]
Given(v) == [set |-> TRUE, val |-> v]

\* the command lines explored
CommandLines ==
    [threshold : {NotGiven, Given(Str(0, "")), Given(Str(3, ""))},
     readThreshold : {NotGiven, Given(Str(0, "")), Given(Str(1, "K"))},
     writeThreshold : {NotGiven, Given(Str(2, ""))},
     avgReadBytes : {NotGiven, Given(Str(0, "")), Given(Str(7, ""))},
     readRowsThreshold : {NotGiven, Given(Str(0, "")), Given(Str(4, ""))}]

\* the environments explored: os.Getenv gives "" for a variable that is unset
Environments ==
    [MON_THRESHOLD : {EmptyStr, Str(6, "")},
     MON_READ_THRESHOLD : {EmptyStr, Str(0, ""), Str(8, "")},
     MON_WRITE_THRESHOLD : {EmptyStr, Str(9, "")},
     MON_AVG_READ_BYTES : {EmptyStr, Str(0, ""), Str(5, "")},
     MON_READ_ROWS_THRESHOLD : {EmptyStr, Str(1, "")}]

\* if !setFlags[name] { if v := os.Getenv(env); v != "" { str = v } }: the
\* string variable of a flag after flag.Parse and the environment override
StringSetting(f, envv, default) ==
    IF f.set THEN f.val
    ELSE IF ~envv.empty THEN envv ELSE default

\* readThreshold (or writeThreshold) as computed from the legacy threshold
\* and the specific string
ThresholdSetting(fl, threshold, str, default) ==
    IF fl.threshold.set THEN threshold
    ELSE parseBytesFlag(IF str.empty THEN default ELSE str)

\* the rows-based threshold: parsed from the flag string when that is not
\* empty, and taken from the environment when the result is 0
RowsSetting(f, envv) ==
    LET fromFlag == IF ~f.val.empty THEN ParseUint(f.val) ELSE 0
    IN  IF fromFlag = 0 /\ ~envv.empty THEN ParseUint(envv) ELSE fromFlag

\* the config LoadConfig returns for command line fl and environment ev
LoadConfig(fl, ev) ==
    LET thresholdStr == StringSetting(fl.threshold, ev.MON_THRESHOLD,
                                      DefaultThresholdStr)
        readThresholdStr == StringSetting(fl.readThreshold, ev.MON_READ_THRESHOLD,
                                          DefaultReadThresholdStr)
        writeThresholdStr == StringSetting(fl.writeThreshold, ev.MON_WRITE_THRESHOLD,
                                           DefaultWriteThresholdStr)
        threshold == parseBytesFlag(thresholdStr)
    IN  [readThreshold |-> ThresholdSetting(fl, threshold, readThresholdStr,
                                            DefaultReadThresholdStr),
         writeThreshold |-> ThresholdSetting(fl, threshold, writeThresholdStr,
                                             DefaultWriteThresholdStr),
         avgRowRead |-> IF fl.avgReadBytes.set THEN ParseUint(fl.avgReadBytes.val)
                        ELSE IF ~ev.MON_AVG_READ_BYTES.empty
                             THEN ParseUint(ev.MON_AVG_READ_BYTES)
                             ELSE DefaultAvgRowRead,
         readRowsThreshold |-> RowsSetting(fl.readRowsThreshold,
                                           ev.MON_READ_ROWS_THRESHOLD)]

\* main calls LoadConfig
LoadConfigCall ==
    /\ load.pc = "args"
    /\ load' = [load EXCEPT !.pc = "loaded",
                            !.cfg = LoadConfig(load.flags, load.env)]
    /\ UNCHANGED <<ringVars, deltaVars, teeVars, lkVars, humanVars, busVars, monVars, sessVars>>

\* the process has been started with a command line and an environment
InitLoad ==
    /\ load \in [pc : {"args"}, flags : CommandLines, env : Environments,
                 cfg : {EmptyStr}]
    /\ ring = newLogRing(GlobalRingCap)
    /\ ringMu = FALSE
    /\ ringRet = NoRet
    /\ appended = <<>>
    /\ DeltaIdle
    /\ TeeIdle
    /\ LkIdle
    /\ HumanIdle
    /\ BusIdle
    /\ MonIdle
    /\ SessIdle

NextLoad == LoadConfigCall

SpecLoad == InitLoad /\ [][NextLoad]_vars

(***************************************************************************)
(* logTeeWriter.mu, logRing.mu and sseBroadcaster.mu: who takes which, in   *)
(* which order, and where a session writes to its client                   *)
(***************************************************************************)
\* the goroutines explored: the monitor's, which logs, and the sessions'
Procs == {Mon} \cup Sessions

\* a mutex that no goroutine holds
Free == "free"

\* a session's handler returns from its loop: in push mode the deferred
\* unsubscribe runs first, in poll mode the deferred log call is all there is
LkReturn(noBus) == IF noBus THEN "w_tmu" ELSE "unsub"

\* logger.Info by goroutine p, which goes on at pc `then` once Write returned
LkLog(p, then) ==
    lk' = [lk EXCEPT !.pc[p] = "w_tmu", !.after[p] = then]

LkUnchanged == UNCHANGED <<ringVars, deltaVars, teeVars, loadVars, humanVars, busVars, monVars, sessVars>>

\* the monitor logs a line
LkMonLog ==
    /\ lk.pc[Mon] = "idle"
    /\ lk.logs < MaxLog
    /\ lk' = [lk EXCEPT !.pc[Mon] = "w_tmu", !.after[Mon] = "idle",
                        !.logs = @ + 1]
    /\ LkUnchanged

\* a request arrives: logger.Info("sse client connected ...")
LkRequest(s) ==
    /\ lk.pc[s] = "idle"
    /\ LkLog(s, IF sseNoBus THEN "hello" ELSE "subscribe")
    /\ LkUnchanged

\* Write: t.mu.Lock(), then the write-through to the underlying writer
LkTeeLock(p) ==
    /\ lk.pc[p] = "w_tmu"
    /\ lk.tmu = Free
    /\ lk' = [lk EXCEPT !.tmu = p, !.pc[p] = "w_rmu"]
    /\ LkUnchanged

\* Write -> globalLogRing.Append: r.mu.Lock()
LkAppendLock(p) ==
    /\ lk.pc[p] = "w_rmu"
    /\ lk.rmu = Free
    /\ lk' = [lk EXCEPT !.rmu = p, !.pc[p] = "w_app"]
    /\ LkUnchanged

\* Append's body and r.mu.Unlock(); in poll mode Write then returns and its
\* deferred t.mu.Unlock() runs, in push mode it goes on to Broadcast
LkAppendUnlock(p) ==
    /\ lk.pc[p] = "w_app"
    /\ lk' = [lk EXCEPT !.ring = RingAppend(@, @.next + 1),
                        !.rmu = Free,
                        !.tmu = IF sseNoBus THEN Free ELSE @,
                        !.pc[p] = IF sseNoBus THEN lk.after[p] ELSE "w_bmu"]
    /\ LkUnchanged

\* Write -> Broadcast: b.mu.Lock()
LkBroadcastLock(p) ==
    /\ lk.pc[p] = "w_bmu"
    /\ lk.bmu = Free
    /\ lk' = [lk EXCEPT !.bmu = p, !.pc[p] = "w_send"]
    /\ LkUnchanged

\* Broadcast's range of non-blocking sends and b.mu.Unlock(); Write returns
\* and its deferred t.mu.Unlock() runs
LkBroadcastUnlock(p) ==
    /\ lk.pc[p] = "w_send"
    /\ lk' = [lk EXCEPT
                 !.chq = [c \in Sessions |->
                             IF c \in lk.subs THEN TrySend(@[c], lk.ring.next)
                             ELSE @[c]],
                 !.bmu = Free, !.tmu = Free, !.pc[p] = lk.after[p]]
    /\ LkUnchanged

\* Subscribe: b.mu.Lock()
LkSubscribeLock(s) ==
    /\ lk.pc[s] = "subscribe"
    /\ lk.bmu = Free
    /\ lk' = [lk EXCEPT !.bmu = s, !.pc[s] = "sub_held"]
    /\ LkUnchanged

\* Subscribe: b.subs[ch] = struct{}{}; b.mu.Unlock()
LkSubscribeUnlock(s) ==
    /\ lk.pc[s] = "sub_held"
    /\ lk' = [lk EXCEPT !.subs = @ \cup {s}, !.bmu = Free, !.pc[s] = "hello"]
    /\ LkUnchanged

\* the write of the hello event returns (its result is not looked at)
LkHello(s) ==
    /\ lk.pc[s] = "hello"
    /\ lk' = [lk EXCEPT !.pc[s] = IF sseNoBus THEN "head" ELSE "loop"]
    /\ LkUnchanged

\* poll mode, seq := globalLogRing.Head(): r.mu.Lock()
LkHeadLock(s) ==
    /\ lk.pc[s] = "head"
    /\ lk.rmu = Free
    /\ lk' = [lk EXCEPT !.rmu = s, !.pc[s] = "head_held"]
    /\ LkUnchanged

\* Head returns r.next; its deferred r.mu.Unlock() runs
LkHeadUnlock(s) ==
    /\ lk.pc[s] = "head_held"
    /\ lk' = [lk EXCEPT !.seq[s] = RingHead(lk.ring), !.rmu = Free,
                        !.pc[s] = "loop"]
    /\ LkUnchanged

\* the client goes away and the select takes case <-notify: return
LkNotify(s) ==
    /\ lk.pc[s] = "loop"
    /\ lk' = [lk EXCEPT !.pc[s] = LkReturn(sseNoBus), !.after[s] = "done"]
    /\ LkUnchanged

\* case <-hb.C / case <-ticker.C: the keep-alive write begins
LkHeartbeat(s) ==
    /\ lk.pc[s] = "loop"
    /\ lk' = [lk EXCEPT !.pc[s] = "hbwrite"]
    /\ LkUnchanged

\* push mode, case line, ok := <-ch: return if closed, else the write of the
\* line begins
LkRecv(s) ==
    /\ lk.pc[s] = "loop"
    /\ ~sseNoBus
    /\ lk.chq[s] # <<>> \/ lk.closed[s]
    /\ lk' = IF lk.chq[s] # <<>>
             THEN [lk EXCEPT !.got[s] = <<Head(lk.chq[s])>>,
                             !.chq[s] = Tail(@), !.pc[s] = "linewrite"]
             ELSE [lk EXCEPT !.pc[s] = LkReturn(sseNoBus), !.after[s] = "done"]
    /\ LkUnchanged

\* poll mode, case <-poll.C: GetFrom is called
LkPoll(s) ==
    /\ lk.pc[s] = "loop"
    /\ sseNoBus
    /\ lk' = [lk EXCEPT !.pc[s] = "getfrom"]
    /\ LkUnchanged

\* GetFrom: r.mu.Lock()
LkGetFromLock(s) ==
    /\ lk.pc[s] = "getfrom"
    /\ lk.rmu = Free
    /\ lk' = [lk EXCEPT !.rmu = s, !.pc[s] = "getfrom_held"]
    /\ LkUnchanged

\* a GetFrom whose lock is released only by its caller, after the lines
\* it returned have been written
RingMuHeldWhileWriting(holder) == holder

\* r.mu once GetFrom has returned: the deferred r.mu.Unlock() has run
RingMuAfterGetFrom(holder) == Free

\* GetFrom copies the lines from seq on and returns them with r.next; the
\* handler then ranges over the copy, and with nothing to write sets seq
LkGetFromReturn(s) ==
    /\ lk.pc[s] = "getfrom_held"
    /\ LET g == RingGetFrom(lk.ring, lk.seq[s]) IN
       lk' = [lk EXCEPT !.rmu = RingMuAfterGetFrom(s),
                        !.got[s] = g.out,
                        !.nxt[s] = g.next,
                        !.seq[s] = IF g.out = <<>> THEN g.next ELSE @,
                        !.pc[s] = IF g.out = <<>> THEN "loop" ELSE "linewrite"]
    /\ LkUnchanged

\* a write to the client returns: with an error the handler returns; after
\* the keep-alive the loop goes on; after a data line the next line of the
\* copy is written, and after the last one (poll mode) seq = next
LkWriteDone(s) ==
    /\ lk.pc[s] \in {"hbwrite", "linewrite"}
    /\ \E ok \in BOOLEAN :
          lk' = IF ~ok
                THEN [lk EXCEPT !.pc[s] = LkReturn(sseNoBus), !.after[s] = "done",
                                !.got[s] = <<>>]
                ELSE IF lk.pc[s] = "hbwrite"
                THEN [lk EXCEPT !.pc[s] = "loop"]
                ELSE IF Len(lk.got[s]) > 1
                THEN [lk EXCEPT !.got[s] = Tail(@)]
                ELSE [lk EXCEPT !.got[s] = <<>>,
                                !.seq[s] = IF sseNoBus THEN lk.nxt[s] ELSE @,
                                !.pc[s] = "loop"]
    /\ LkUnchanged

\* the deferred unsubscribe(): b.mu.Lock()
LkUnsubLock(s) ==
    /\ lk.pc[s] = "unsub"
    /\ lk.bmu = Free
    /\ lk' = [lk EXCEPT !.bmu = s, !.pc[s] = "unsub_held"]
    /\ LkUnchanged

\* an unsubscribe that returns with b.mu still locked
BusMuKeptAfterUnsubscribe(holder) == holder

\* b.mu once unsubscribe has returned: b.mu.Unlock() has run
BusMuAfterUnsubscribe(holder) == Free

\* unsubscribe's body and b.mu.Unlock(); then the deferred
\* logger.Info("sse client disconnected", ...)
LkUnsubUnlock(s) ==
    /\ lk.pc[s] = "unsub_held"
    /\ lk' = [lk EXCEPT !.subs = @ \ {s},
                        !.closed[s] = @ \/ s \in lk.subs,
                        !.bmu = BusMuAfterUnsubscribe(s),
                        !.pc[s] = "w_tmu", !.after[s] = "done"]
    /\ LkUnchanged

\* main has built the ring, the broadcaster and the tee writer, the mode is
\* fixed, no request has arrived
InitLk ==
    /\ lk = [pc |-> [p \in Procs |-> "idle"],
             after |-> [p \in Procs |-> "idle"],
             tmu |-> Free, rmu |-> Free, bmu |-> Free,
             ring |-> newLogRing(GlobalRingCap),
             subs |-> {},
             chq |-> [s \in Sessions |-> <<>>],
             closed |-> [s \in Sessions |-> FALSE],
             seq |-> [s \in Sessions |-> 0],
             nxt |-> [s \in Sessions |-> 0],
             got |-> [s \in Sessions |-> <<>>],
             logs |-> 0]
    /\ HumanIdle
    /\ ring = newLogRing(GlobalRingCap)
    /\ ringMu = FALSE
    /\ ringRet = NoRet
    /\ appended = <<>>
    /\ DeltaIdle
    /\ TeeIdle
    /\ LoadIdle
    /\ sseNoBus \in BOOLEAN
    /\ subs = {}
    /\ chq = [c \in Sessions |-> <<>>]
    /\ chClosed = [c \in Sessions |-> FALSE]
    /\ busMu = "free"
    /\ teeMu = "free"
    /\ wr = NoWrite
    /\ monLines = 0
    /\ pc = [i \in Sessions |-> "off"]
    /\ ctxDone = [i \in Sessions |-> FALSE]
    /\ panicked = "none"
    /\ extraUnsub = [c \in Sessions |-> 0]
    /\ enq = [c \in Sessions |-> <<>>]
    /\ dropped = [c \in Sessions |-> {}]
    /\ regAt = [c \in Sessions |-> 0]
    /\ deq = [c \in Sessions |-> <<>>]
    /\ MonIdle
    /\ SessIdle

\* the steps in which goroutine p takes a mutex
LkAcquire(p) ==
    \/ LkTeeLock(p)
    \/ LkAppendLock(p)
    \/ LkBroadcastLock(p)
    \/ LkSubscribeLock(p)
    \/ LkHeadLock(p)
    \/ LkGetFromLock(p)
    \/ LkUnsubLock(p)

\* the steps goroutine p takes while it holds ring.mu or b.mu
LkCritical(p) ==
    \/ LkAppendUnlock(p)
    \/ LkBroadcastUnlock(p)
    \/ LkSubscribeUnlock(p)
    \/ LkHeadUnlock(p)
    \/ LkGetFromReturn(p)
    \/ LkUnsubUnlock(p)

NextLk ==
    \/ LkMonLog
    \/ \E s \in Sessions : LkRequest(s)
    \/ \E p \in Procs : LkTeeLock(p)
    \/ \E p \in Procs : LkAppendLock(p)
    \/ \E p \in Procs : LkAppendUnlock(p)
    \/ \E p \in Procs : LkBroadcastLock(p)
    \/ \E p \in Procs : LkBroadcastUnlock(p)
    \/ \E s \in Sessions : LkSubscribeLock(s)
    \/ \E s \in Sessions : LkSubscribeUnlock(s)
    \/ \E s \in Sessions : LkHello(s)
    \/ \E s \in Sessions : LkHeadLock(s)
    \/ \E s \in Sessions : LkHeadUnlock(s)
    \/ \E s \in Sessions : LkNotify(s)
    \/ \E s \in Sessions : LkHeartbeat(s)
    \/ \E s \in Sessions : LkRecv(s)
    \/ \E s \in Sessions : LkPoll(s)
    \/ \E s \in Sessions : LkGetFromLock(s)
    \/ \E s \in Sessions : LkGetFromReturn(s)
    \/ \E s \in Sessions : LkWriteDone(s)
    \/ \E s \in Sessions : LkUnsubLock(s)
    \/ \E s \in Sessions : LkUnsubUnlock(s)

SpecLk == InitLk /\ [][NextLk]_vars

\* every goroutine that is not in a write to a client keeps running, and
\* sync.Mutex hands a lock to a goroutine that keeps waiting for it
\* (starvation mode); nothing makes a write to a client return, and nothing
\* makes a request or a log call happen
FairSpecLk ==
    /\ SpecLk
    /\ \A p \in Procs : WF_vars(LkCritical(p))
    /\ \A p \in Procs : SF_vars(LkAcquire(p))

(***************************************************************************)
(* bytesToHuman                                                            *)
(***************************************************************************)
\* the byte counts are uint64 and the unit is 1024 = 2^10; here the unit is
\* 2^UnitBits and the word is scaled with it, to 64/10 times the bits of the
\* unit (rounded up), so that the word holds as many powers of the unit as
\* uint64 holds powers of 1024
UnitBits == 2
Unit == 2 ^ UnitBits
ByteBits == (UnitBits * 64 + 9) \div 10
ByteMod == 2 ^ ByteBits

\* []string{"KiB", "MiB", "GiB", "TiB"}
Prefixes == <<"KiB", "MiB", "GiB", "TiB">>

\* bytesToHuman(b) up to the loop: "0B" for 0, "%dB" below the unit, else
\* div, exp := uint64(unit), 0 and n := b / unit
HumanEnter ==
    /\ human.pc = "call"
    /\ human' = IF human.b = 0
                THEN [human EXCEPT !.pc = "done", !.out = [value |-> <<0, 1>>, prefix |-> "B"]]
                ELSE IF human.b < Unit
                THEN [human EXCEPT !.pc = "done",
                                   !.out = [value |-> <<human.b, 1>>, prefix |-> "B"]]
                ELSE [human EXCEPT !.pc = "loop", !.div = Unit, !.exp = 0,
                                   !.n = human.b \div Unit]
    /\ UNCHANGED <<ringVars, deltaVars, teeVars, loadVars, lkVars, busVars, monVars, sessVars>>

\* one iteration of for n := b / unit; n >= unit; n /= unit
HumanLoop ==
    /\ human.pc = "loop"
    /\ human.n >= Unit
    /\ human' = [human EXCEPT !.div = (@ * Unit) % ByteMod, !.exp = @ + 1,
                              !.n = @ \div Unit]
    /\ UNCHANGED <<ringVars, deltaVars, teeVars, loadVars, lkVars, busVars, monVars, sessVars>>

\* the loop is over: value := float64(b) / float64(div), the prefix is taken
\* from the four-element slice (an index out of its range panics) and the
\* string is formatted
HumanFormat ==
    /\ human.pc = "loop"
    /\ human.n < Unit
    /\ human' = IF human.exp >= Len(Prefixes)
                THEN [human EXCEPT !.pc = "panic"]
                ELSE [human EXCEPT !.pc = "done",
                                   !.out = [value |-> <<human.b, human.div>>,
                                            prefix |-> Prefixes[human.exp + 1]]]
    /\ UNCHANGED <<ringVars, deltaVars, teeVars, loadVars, lkVars, busVars, monVars, sessVars>>

\* bytesToHuman is called with some value of the word: Startup passes the
\* thresholds, Alert the thresholds and the two estimates
InitHuman ==
    /\ human \in [pc : {"call"}, b : 0 .. (ByteMod - 1), n : {0}, div : {0},
                  exp : {0}, out : {[value |-> <<0, 0>>, prefix |-> ""]}]
    /\ ring = newLogRing(GlobalRingCap)
    /\ ringMu = FALSE
    /\ ringRet = NoRet
    /\ appended = <<>>
    /\ DeltaIdle
    /\ TeeIdle
    /\ LoadIdle
    /\ LkIdle
    /\ BusIdle
    /\ MonIdle
    /\ SessIdle

NextHuman ==
    \/ HumanEnter
    \/ HumanLoop
    \/ HumanFormat

SpecHuman == InitHuman /\ [][NextHuman]_vars

(***************************************************************************)
(* Claims about logRing, checked under SpecRing.                           *)
(***************************************************************************)
\* the line that was given sequence number k (0-based) by Append
LineOfSeq(k) == appended[k + 1]

\* the lines with sequence numbers lo .. hi-1, in sequence order
LinesOfSeqs(lo, hi) == [i \in 1 .. (hi - lo) |-> LineOfSeq(lo + i - 1)]

\* C1 (part): next - base <= C in every state of a ring of capacity C >= 1,
\* and what GetFrom returns never holds a line whose sequence number is below base
RingBounded ==
    ring.cap >= 1 =>
        /\ ring.next - ring.base <= ring.cap
        /\ ringRet.op = "GetFrom" =>
              \E j \in ring.base .. ring.next :
                  ringRet.out = LinesOfSeqs(j, ring.next)

\* C1: in every reachable state of a ring of capacity C >= 1, under any
\* interleaving of Append, GetFrom and Head, next - base <= C, neither base nor
\* next ever decreases, and no line below base is returned again
C1_RingInvariant ==
    /\ []RingBounded
    /\ [][ring.cap >= 1 => ring'.base >= ring.base /\ ring'.next >= ring.next]_vars

\* C1 witness: a ring that has evicted lines is asked for a cursor below base
C1_Witness ==
    /\ ring.cap >= 1
    /\ ring.base >= 2
    /\ ringRet.op = "GetFrom"
    /\ ringRet.seq < ring.base
    /\ Len(ringRet.out) = ring.cap

\* C2: after n Appends on an empty ring of capacity C >= 1 the retained lines
\* are the last min(n, C) appended lines in append order, base = max(0, n - C),
\* next = n, the i-th retained line has sequence number base + i; for C = 3
\* and appends A,B,C,D: base = 1, retained = [B,C,D], next = 4
C2_AppendFifo ==
    ring.cap >= 1 =>
        LET n == Len(appended) IN
        /\ ring.next = n
        /\ ring.base = Max(0, n - ring.cap)
        /\ Len(ring.data) = Min(n, ring.cap)
        /\ ring.data = SubSeq(appended, n - Min(n, ring.cap) + 1, n)
        /\ \A i \in 0 .. (Len(ring.data) - 1) :
               ring.data[i + 1] = LineOfSeq(ring.base + i)
        /\ (ring.cap = 3 /\ appended = <<"A", "B", "C", "D">>) =>
               ring.base = 1 /\ ring.data = <<"B", "C", "D">> /\ ring.next = 4

\* C2 witness: capacity 3 after the appends A,B,C,D
C2_Witness ==
    /\ ring.cap = 3
    /\ appended = <<"A", "B", "C", "D">>
    /\ ringRet.op = "Append"

\* C3: GetFrom(seq) returns, in sequence order, exactly the retained lines with
\* sequence number >= max(seq, base) and the current next as the new cursor;
\* seq < base is clamped without error, seq >= next returns nothing; for the
\* capacity-3 example GetFrom(0) = [B,C,D] and GetFrom(2) = [C,D]
C3_GetFromSuffix ==
    ringRet.op = "GetFrom" =>
        LET lo == Max(ringRet.seq, ring.base) IN
        /\ ringRet.next = ring.next
        /\ ringRet.out = IF lo <= ring.next THEN LinesOfSeqs(lo, ring.next) ELSE <<>>
        /\ ringRet.seq >= ring.next => ringRet.out = <<>>
        /\ (ring.cap = 3 /\ appended = <<"A", "B", "C", "D">>) =>
               /\ ringRet.seq = 0 => ringRet.out = <<"B", "C", "D">>
               /\ ringRet.seq = 2 => ringRet.out = <<"C", "D">>

\* C3 witness: GetFrom(0) on the capacity-3 ring holding B,C,D (seq < base)
C3_Witness ==
    /\ ring.cap = 3
    /\ appended = <<"A", "B", "C", "D">>
    /\ ringRet.op = "GetFrom"
    /\ ringRet.seq = 0
    /\ ringRet.out = <<"B", "C", "D">>

\* C4: Append has no failure outcome: for every capacity newLogRing accepts and
\* every reachable state, Append completes without panic, advances next by
\* exactly 1, and advances base by exactly 1 iff the buffer held C lines
C4_AppendNeverFails ==
    [][ringRet'.op = "Append" =>
          /\ ~ringRet'.panic
          /\ ring'.next = ring.next + 1
          /\ ring'.base = ring.base + (IF Len(ring.data) = ring.cap THEN 1 ELSE 0)]_vars

(***************************************************************************)
(* Claims about deltaSnap, checked under SpecDelta.                        *)
(***************************************************************************)
DeltaDone == deltaOut.st = "done"

\* C10: for all snapshot pairs and every key of deltaSnap's result each of the
\* three deltas is >= 0, and for a key present in both snapshots each delta
\* equals max(0, new - old): a counter smaller in new than in old yields 0,
\* never a wrapped-around unsigned value
C10_NoUnderflow ==
    DeltaDone =>
        \A k \in DOMAIN deltaOut.out :
            LET d == deltaOut.out[k] IN
            /\ d.CountStar >= 0 /\ d.SumRowsExam >= 0 /\ d.SumRowsSent >= 0
            /\ k \in DOMAIN oldSnap =>
                  /\ d.CountStar = Max(0, newSnap[k].CountStar - oldSnap[k].CountStar)
                  /\ d.SumRowsExam = Max(0, newSnap[k].SumRowsExam - oldSnap[k].SumRowsExam)
                  /\ d.SumRowsSent = Max(0, newSnap[k].SumRowsSent - oldSnap[k].SumRowsSent)

\* C10 witness: a key of the result whose count went down and whose rows
\* examined went up between the snapshots
C10_Witness ==
    /\ DeltaDone
    /\ \E k \in DOMAIN deltaOut.out :
          /\ k \in DOMAIN oldSnap
          /\ newSnap[k].CountStar < oldSnap[k].CountStar
          /\ newSnap[k].SumRowsExam > oldSnap[k].SumRowsExam
          /\ deltaOut.out[k].CountStar = 0

\* the three counters of a snapshot entry or of a delta entry
Counters(e) == <<e.CountStar, e.SumRowsExam, e.SumRowsSent>>

\* C11: every key present in both snapshots whose count, rows-examined and
\* rows-sent counters are all equal in old and new is absent from the delta
\* mapping, whatever its rows affected, text and sample are
C11_ZeroDeltaSuppressed ==
    DeltaDone =>
        \A k \in DOMAIN oldSnap \cap DOMAIN newSnap :
            Counters(oldSnap[k]) = Counters(newSnap[k]) => k \notin DOMAIN deltaOut.out

\* C11 witness: a key with unchanged non-zero counters whose rows affected
\* changed is absent, and a key with unchanged counters whose new entry has a
\* sample is absent as well
C11_Witness ==
    /\ DeltaDone
    /\ DOMAIN deltaOut.out = {}
    /\ \E k \in DOMAIN oldSnap \cap DOMAIN newSnap :
          /\ Counters(oldSnap[k]) = Counters(newSnap[k])
          /\ newSnap[k].CountStar > 0
          /\ newSnap[k].SumRowsAff # oldSnap[k].SumRowsAff
    /\ \E k \in DOMAIN oldSnap \cap DOMAIN newSnap :
          /\ Counters(oldSnap[k]) = Counters(newSnap[k])
          /\ newSnap[k].QuerySample.Valid

\* C12: every key absent from old and present in new is in the delta mapping
\* with count, rows-examined and rows-sent deltas equal to the full current
\* counter values
C12_NewKeyFullCredit ==
    DeltaDone =>
        \A k \in DOMAIN newSnap \ DOMAIN oldSnap :
            /\ k \in DOMAIN deltaOut.out
            /\ Counters(deltaOut.out[k]) = Counters(newSnap[k])

\* C12 witness: a key absent from a non-empty old snapshot is credited with
\* its full non-zero counters
C12_Witness ==
    /\ DeltaDone
    /\ DOMAIN oldSnap # {}
    /\ \E k \in DOMAIN newSnap \ DOMAIN oldSnap :
          /\ newSnap[k].CountStar = CMax
          /\ newSnap[k].SumRowsExam = CMax
          /\ newSnap[k].SumRowsSent = CMax
          /\ Counters(deltaOut.out[k]) = <<CMax, CMax, CMax>>

\* a snapshot without the keys outside K
Restrict(s, K) == [k \in DOMAIN s \cap K |-> s[k]]

\* the keys of the old snapshot that the new snapshot no longer has
GoneKeys == DOMAIN oldSnap \ DOMAIN newSnap

\* C31: the key set of the delta mapping is a subset of the key set of the
\* current snapshot: a key of the previous snapshot that is absent from the
\* current one has no delta entry (so nothing to alert on), and the delta
\* mapping is the one computed from the previous snapshot without those keys
C31_GoneKeyContributesNothing ==
    DeltaDone =>
        /\ DOMAIN deltaOut.out \subseteq DOMAIN newSnap
        /\ GoneKeys \cap DOMAIN deltaOut.out = {}
        /\ deltaOut.out = deltaSnap(Restrict(oldSnap, DOMAIN newSnap), newSnap)

\* C31 witness: a key with non-zero counters is gone from the current
\* snapshot while a key that stayed, its counters unchanged, has no entry
C31_Witness ==
    /\ DeltaDone
    /\ \E g \in GoneKeys : oldSnap[g].CountStar > 0
    /\ \E k \in DOMAIN oldSnap \cap DOMAIN newSnap :
          /\ Counters(oldSnap[k]) = Counters(newSnap[k])
          /\ k \notin DOMAIN deltaOut.out

\* C13: for all snapshot pairs every entry of the delta mapping has at least
\* one of its three delta counters strictly greater than zero, for keys
\* present in both snapshots and for newly observed keys alike
C13_OnlyNonZeroEntries ==
    DeltaDone =>
        \A k \in DOMAIN deltaOut.out :
            \/ deltaOut.out[k].CountStar > 0
            \/ deltaOut.out[k].SumRowsExam > 0
            \/ deltaOut.out[k].SumRowsSent > 0

(***************************************************************************)
(* Claims about logTeeWriter.Write, checked under SpecTee.                 *)
(***************************************************************************)
\* C22: every complete, non-empty log line written through the log writer is
\* appended to the ring exactly once and broadcast exactly once, ring
\* appends and broadcasts being in the order in which the lines were written,
\* also with concurrent writers and with lines split across Write calls
C22_EachLineOnceInOrder ==
    /\ appended = tee.written
    /\ tee.bcast = tee.written

(***************************************************************************)
(* Claims about LoadConfig, checked under SpecLoad.                        *)
(***************************************************************************)
\* what a setting is when the command line wins over the environment and the
\* environment over the default
Precedence(f, envv, default) ==
    IF f.set THEN f.val ELSE IF ~envv.empty THEN envv ELSE default

\* the legacy threshold in force, if any: from the command line, else from
\* the environment
LegacyThreshold ==
    Precedence(load.flags.threshold, load.env.MON_THRESHOLD, EmptyStr)

\* C24: for every setting a value given on the command line wins over the
\* MON_* environment variable, which wins over the built-in default; an
\* explicit flag value of 0 is not replaced by an environment value; and a
\* legacy threshold given only through the environment applies to both the
\* read and the write threshold
C24_FlagOverEnvOverDefault ==
    load.pc = "loaded" =>
        /\ load.cfg.avgRowRead =
              ParseUint(Precedence(load.flags.avgReadBytes,
                                   load.env.MON_AVG_READ_BYTES,
                                   Str(DefaultAvgRowRead, "")))
        /\ load.cfg.readRowsThreshold =
              ParseUint(Precedence(load.flags.readRowsThreshold,
                                   load.env.MON_READ_ROWS_THRESHOLD,
                                   Str(0, "")))
        /\ LegacyThreshold.empty =>
              /\ load.cfg.readThreshold =
                    parseBytesFlag(Precedence(load.flags.readThreshold,
                                              load.env.MON_READ_THRESHOLD,
                                              DefaultReadThresholdStr))
              /\ load.cfg.writeThreshold =
                    parseBytesFlag(Precedence(load.flags.writeThreshold,
                                              load.env.MON_WRITE_THRESHOLD,
                                              DefaultWriteThresholdStr))
        /\ (/\ ~LegacyThreshold.empty
            /\ ~load.flags.readThreshold.set /\ load.env.MON_READ_THRESHOLD.empty
            /\ ~load.flags.writeThreshold.set /\ load.env.MON_WRITE_THRESHOLD.empty)
           => /\ load.cfg.readThreshold = parseBytesFlag(LegacyThreshold)
              /\ load.cfg.writeThreshold = parseBytesFlag(LegacyThreshold)

(***************************************************************************)
(* Claims about monitor.Run, checked under SpecMon.                        *)
(***************************************************************************)
\* C21: if the initial Ping or the initial Snapshot fails, the run ends
\* without entering the loop: it has returned, no periodic snapshot is ever
\* fetched (no tick has run, succeeded or failed) and no Alert is ever issued
C21_StartupFailureAborts ==
    mon.startErr # "" =>
        /\ mon.pc = "returned"
        /\ mon.ticks = 0 /\ mon.fails = 0
        /\ mon.curr = NoSnap /\ mon.delta = NoSnap
        /\ mon.alerts = <<>>

\* C21 witness: the initial Snapshot has failed after a successful Ping and
\* the run has returned
C21_Witness ==
    mon.startErr = "snapshot" /\ mon.pc = "returned" /\ mon.prev = NoSnap

\* the step is the iteration of the range over delta for key k
Processes(k) == mon.pc = "range" /\ k \in mon.todo /\ k \notin mon'.todo

\* the alert condition of the design: estimatedBytesRead >= readThreshold OR
\* estimatedBytesWritten >= writeThreshold, the estimates being the integer
\* products of the row deltas and the configured bytes per row
AlertCondition(d, c) ==
    \/ d.SumRowsExam * c.AvgRowRead >= c.ReadThreshold
    \/ d.SumRowsSent * c.AvgRowSent >= c.WriteThreshold

\* the Alert calls of the tick in progress that name digest k
AlertsOf(k) == {i \in 1 .. Len(mon.alerts) : mon.alerts[i].Digest = k}

\* the range over delta of the tick in progress is over
RangeDone == mon.pc = "range" /\ mon.todo = {}

\* C14: for every delta processed in a tick and every non-negative
\* configuration, thresholds of 0 included, an alert is issued if and only if
\* estimatedBytesRead >= readThreshold OR estimatedBytesWritten >=
\* writeThreshold, the two thresholds being tested independently
C14_AlertIffOverThreshold ==
    [][\A k \in Keys :
          Processes(k) =>
              ((Len(mon'.alerts) = Len(mon.alerts) + 1)
                  <=> AlertCondition(mon.delta[k], configuration))]_vars

\* C15: in every tick whose fetch succeeds Reporter.Alert is called exactly
\* once for each delta entry that satisfies the alert condition and never for
\* one that does not, and the Offender passed has digest, display text,
\* estimated bytes, rows examined, rows sent and count populated from that
\* same delta entry
C15_AlertExactlyOnce ==
    RangeDone =>
        /\ \A k \in DOMAIN mon.delta :
              Cardinality(AlertsOf(k)) =
                  IF AlertCondition(mon.delta[k], configuration) THEN 1 ELSE 0
        /\ \A i \in 1 .. Len(mon.alerts) :
              LET o == mon.alerts[i] IN
              /\ o.Digest \in DOMAIN mon.delta
              /\ o = Offender(mon.delta[o.Digest], configuration)

\* C16: the display text of every alert record is the literal sample text of
\* the digest's entry in the current snapshot whenever the source captured a
\* non-empty sample for it, and the normalized digest text otherwise, in full
C16_AlertCarriesSample ==
    mon.pc = "range" =>
        \A i \in 1 .. Len(mon.alerts) :
            LET e == mon.curr[mon.alerts[i].Digest] IN
            mon.alerts[i].Text =
                IF e.QuerySample.Valid /\ e.QuerySample.String # ""
                THEN e.QuerySample.String ELSE e.DigestText

\* C20: when a periodic snapshot fetch fails the previous-snapshot reference
\* is left unchanged, no Alert is issued for that tick, and the loop is back
\* at its wait point: the failure never terminates the monitor
C20_FetchFailureSkipsTick ==
    [][mon'.fails = mon.fails + 1 =>
          /\ mon'.prev = mon.prev
          /\ mon.alerts = <<>> /\ mon'.alerts = <<>>
          /\ mon'.pc = "wait"]_vars

\* C20 witness: after a failed fetch a later tick has fetched a snapshot and
\* issued an alert for a delta against the snapshot kept from before
C20_Witness ==
    /\ mon.fails >= 1
    /\ mon.pc = "range"
    /\ mon.prev # NoSnap
    /\ \E k \in DOMAIN mon.delta :
          /\ k \in DOMAIN mon.prev
          /\ AlertsOf(k) # {}

\* C23: an alert is issued for a query in an interval when its estimated read
\* bytes or its estimated write bytes are >= the configured MinPrintBytes,
\* and every such alert carries the query sample the source captured
C23_AlertAtMinPrintBytes ==
    [][\A k \in Keys :
          (/\ Processes(k)
           /\ \/ mon.delta[k].SumRowsExam * configuration.AvgRowRead
                    >= configuration.MinPrintBytes
              \/ mon.delta[k].SumRowsSent * configuration.AvgRowSent
                    >= configuration.MinPrintBytes)
          => /\ Len(mon'.alerts) = Len(mon.alerts) + 1
             /\ LET o == mon'.alerts[Len(mon'.alerts)]
                    e == mon.curr[k]
                IN  /\ o.Digest = k
                    /\ (e.QuerySample.Valid /\ e.QuerySample.String # "")
                           => o.Text = e.QuerySample.String]_vars

\* C35: at the start of every tick the previous-snapshot reference is the
\* snapshot of the most recent successful fetch (the initial one or a later
\* tick's): a successful tick, also after failed ones, computes its delta
\* against it, and the reference changes only when the range over the delta
\* is through, all alerts of the tick issued, and then to the current snapshot
C35_PrevIsLastFetched ==
    /\ [](mon.pc \in {"wait", "fetching"} => mon.prev = mon.lastOk)
    /\ [][/\ (mon.pc = "wait" /\ mon'.pc = "range") =>
                 /\ mon'.delta = deltaSnap(mon.lastOk, mon'.curr)
                 /\ mon'.lastOk = mon'.curr
                 /\ mon'.prev = mon.prev
          /\ (mon'.prev # mon.prev /\ mon.pc # "snapshot") =>
                 /\ mon.pc = "range" /\ mon.todo = {}
                 /\ mon'.prev = mon.curr
                 /\ mon'.alerts = <<>> /\ mon'.pc = "wait"]_vars

\* C35 witness: after a failed tick the next one has fetched a different
\* snapshot and issued all its alerts, at least one, while the reference is
\* still the initial snapshot
C35_Witness ==
    /\ mon.fails >= 1
    /\ mon.pc = "range" /\ mon.todo = {}
    /\ mon.alerts # <<>>
    /\ mon.prev # NoSnap
    /\ mon.prev # mon.curr
    /\ mon.lastOk = mon.curr

\* C36: over a whole run of the process, however the monitor ends, Startup is
\* called exactly once and before any Ping or Snapshot, Shutdown exactly once
\* by the time the process has ended, no Alert is issued after Shutdown, and
\* Close of the Snapshot Source is called exactly once
C36_LifecycleExactlyOnce ==
    /\ mon.pc \notin {"off", "start"} => mon.startups = 1
    /\ mon.pc \in {"off", "start"} => mon.startups = 0
    /\ mon.shutdowns <= 1 /\ mon.closes <= 1
    /\ mon.shutdowns = 1 => mon.alerts = <<>> /\ mon.pc = "stopped"
    /\ mon.exited => mon.shutdowns = 1 /\ mon.closes = 1

(***************************************************************************)
(* Claims about the loop of monitor.Run under overload, checked under      *)
(* SpecLoop (FairSpecLoop where the loop has to get somewhere).            *)
(***************************************************************************)
\* C27: when tick bodies take longer than the interval no tick is skipped:
\* every timer tick that fires while a body runs is queued and processed
\* afterwards, so that as many bodies are executed as timer ticks fired
C27_NoTickSkipped == mon.missed = 0

\* C28: every periodic snapshot fetch is bounded by a timeout of its own: a
\* fetch the Snapshot Source never answers is abandoned, so that the loop is
\* at its wait point again
C28_FetchTimesOut == (mon.pc = "fetching") ~> (mon.pc = "wait")

\* C29: the loop acts on a stop signal or on the cancellation of ctx only at
\* its wait point: it leaves from nowhere else, and a tick that has started
\* its range over delta ends only with every entry processed, the previous
\* snapshot replaced by the current one and the loop back at its wait point
C29_StopsOnlyBetweenTicks ==
    [][/\ mon'.pc = "stopped" =>
              /\ mon.pc \in {"wait", "stopped"}
              /\ mon.stop # "none"
              /\ mon.curr = NoSnap /\ mon.todo = {} /\ mon.alerts = <<>>
       /\ (mon.pc = "range" /\ mon'.pc # "range") =>
              /\ mon.todo = {}
              /\ mon'.pc = "wait"
              /\ mon'.prev = mon.curr]_vars

\* C29 witness: a stop request has arrived in the middle of a tick, after
\* one alert of the tick was issued and before another entry was processed
C29_Witness ==
    /\ mon.pc = "range"
    /\ mon.stop # "none"
    /\ mon.alerts # <<>>
    /\ mon.todo # {}

(***************************************************************************)
(* Claims about the byte estimates of a tick, checked under SpecEst.       *)
(***************************************************************************)
\* C30: for every delta the estimated bytes read are the product of the rows
\* examined and the bytes per row examined, and the estimated bytes written
\* the product of the rows sent and the bytes per row sent, as mathematical
\* integers, for all values of the word; so an entry whose true product
\* reaches its threshold is alerted on
C30_EstimateIsProduct ==
    [][\A k \in Keys :
          Processes(k) =>
              LET d == mon.delta[k]
                  c == configuration
              IN  /\ BytesRead(d, c) = d.SumRowsExam * c.AvgRowRead
                  /\ BytesWrite(d, c) = d.SumRowsSent * c.AvgRowSent
                  /\ (\/ d.SumRowsExam * c.AvgRowRead >= c.ReadThreshold
                      \/ d.SumRowsSent * c.AvgRowSent >= c.WriteThreshold)
                        => Len(mon'.alerts) = Len(mon.alerts) + 1]_vars

(***************************************************************************)
(* Claims about one streaming session, checked under SpecSess.             *)
(***************************************************************************)
\* the handler has handed a period to its heartbeat ticker
TickerMade == sess.pc \in {"hello", "head", "loop", "lines", "return", "done"}

\* the duration the query asks for, when it asks for one that parses
Requested(q) == ParseDuration(q).d

\* the units of kind u among the write attempts of the session
UnitsOf(u) == {i \in 1 .. Len(sess.out) : sess.out[i].unit = u}

\* C17: in both modes the heartbeat period of a session is the requested
\* value if it parses and lies within [100ms, 5min], 100ms if the parsed
\* request is below 100ms (zero and negative durations included), 5min if it
\* is above 5min, and the 15s default if no value is given or it does not
\* parse; the period handed to the timer is always within [100ms, 5min]
C17_HeartbeatClamped ==
    TickerMade =>
        LET q == sess.query
            asked == q.given /\ ~ParseDuration(q).err
        IN  /\ sess.heartbeat >= 100 /\ sess.heartbeat <= 5 * 60 * 1000
            /\ ~asked => sess.heartbeat = 15 * 1000
            /\ (asked /\ Requested(q) < 100) => sess.heartbeat = 100
            /\ (asked /\ Requested(q) > 5 * 60 * 1000) => sess.heartbeat = 5 * 60 * 1000
            /\ (asked /\ Requested(q) >= 100 /\ Requested(q) <= 5 * 60 * 1000) =>
                   sess.heartbeat = Requested(q)

\* C17 witness: a push-mode session asked for a negative period has written
\* a keep-alive with the period raised to 100ms
C17_Witness ==
    /\ ~sseNoBus
    /\ sess.query.given /\ sess.query.neg
    /\ sess.heartbeat = 100
    /\ UnitsOf("keepalive") # {}

\* C18: in both modes the first unit written to a client after connect is
\* the hello event: it is written exactly once per session and strictly
\* before any data line or keep-alive comment of that session
C18_HelloFirst ==
    /\ sess.pc \in {"head", "loop", "lines", "return", "done"} =>
          Cardinality(UnitsOf("hello")) = 1
    /\ sess.out # <<>> => UnitsOf("hello") = {1}

\* C18 witness: a poll-mode session has written the hello event, a data
\* line and a keep-alive
C18_Witness ==
    /\ sseNoBus
    /\ sess.out # <<>>
    /\ sess.out[1].unit = "hello"
    /\ UnitsOf("data") # {}
    /\ UnitsOf("keepalive") # {}

\* C19: any failed write to the client (hello event, keep-alive or data
\* line, in either mode) terminates the session: after the first failed write
\* no further write is attempted on that connection and the session's
\* resources (subscription, timers) are released
C19_FailedWriteTerminates ==
    /\ \A i \in 1 .. Len(sess.out) : ~sess.out[i].ok => i = Len(sess.out)
    /\ sess.pc = "done" => (Sess \notin subs /\ sess.tickersStopped)

\* the line numbers of s go up strictly: s has the order in which the lines
\* were logged and no line twice
Increasing(s) == \A i, j \in 1 .. Len(s) : i < j => s[i] < s[j]

\* the lines of the data units among write attempts s, in order
DataLines(s) == LET d == SelectSeq(s, LAMBDA u : u.unit = "data")
                IN  [i \in 1 .. Len(d) |-> d[i].line]

\* C26: a poll-mode session starts with the cursor Head() had at connect, so
\* no line appended before that point is ever written to the client (line n
\* has sequence number n - 1); on each poll tick it calls GetFrom(cursor),
\* writes every returned line in the returned order, and then sets its
\* cursor to the returned next value
C26_PollFromHead ==
    [][sseNoBus =>
          /\ (sess.pc = "head" /\ sess'.pc = "loop") =>
                 sess'.seq = sess'.connectHead /\ DataLines(sess'.out) = <<>>
          /\ \A i \in 1 .. Len(DataLines(sess'.out)) :
                 DataLines(sess'.out)[i] > sess'.connectHead
          /\ (sess.pc = "loop" /\ sess'.pc = "lines") =>
                 /\ sess'.got = RingGetFrom(ring, sess.seq).out
                 /\ sess'.next = RingGetFrom(ring, sess.seq).next
          /\ (sess.pc = "lines" /\ sess'.pc = "loop") =>
                 /\ sess'.seq = sess.next
                 /\ Len(sess.got) <= Len(DataLines(sess.out))
                 /\ SubSeq(DataLines(sess.out),
                           Len(DataLines(sess.out)) - Len(sess.got) + 1,
                           Len(DataLines(sess.out))) = sess.got]_vars

\* C26 witness: a poll-mode session that connected when the ring already had
\* lines has polled, written a line appended after its connect, and is back
\* in its loop with the cursor advanced
C26_Witness ==
    /\ sseNoBus /\ sess.pc = "loop"
    /\ sess.connectHead >= 1
    /\ sess.seq > sess.connectHead
    /\ \E i \in 1 .. Len(sess.out) :
          sess.out[i].unit = "data" /\ sess.out[i].ok

\* C34: in poll mode the data lines a session writes are lines appended
\* after its cursor was initialised, in strictly increasing sequence-number
\* order and none twice, however Append calls interleave with its polls; and
\* a poll before which at most C lines were appended since the cursor was
\* last set (C the capacity of the ring) returns every line from the cursor
\* on, so that with no failed write no appended line is skipped: while no
\* more than C lines were appended since the connect, a session back in its
\* loop has written every one of them up to its cursor
C34_PollInOrderNoSkip ==
    /\ [](sseNoBus =>
            /\ Increasing(DataLines(sess.out))
            /\ \A i \in 1 .. Len(DataLines(sess.out)) :
                   DataLines(sess.out)[i] > sess.connectHead)
    /\ [][sseNoBus =>
            /\ (sess.pc = "loop" /\ sess'.pc = "lines"
                    /\ ring.next - sess.seq <= ring.cap) =>
                   sess'.got = [i \in 1 .. (ring.next - sess.seq) |-> sess.seq + i]
            /\ (sess.pc = "lines" /\ sess'.pc = "loop") =>
                   /\ sess'.seq = sess.next
                   /\ ring.next - sess.connectHead <= ring.cap =>
                          DataLines(sess'.out) =
                              [i \in 1 .. (sess'.seq - sess.connectHead) |->
                                  sess.connectHead + i]]_vars

\* C34 witness: a session whose first poll found nothing and before whose
\* second poll as many lines were appended as the ring holds (its own connect
\* line was evicted) has written them all and is back in its loop
C34_Witness ==
    /\ sseNoBus /\ sess.pc = "loop"
    /\ sess.polls = 2
    /\ ring.base >= 1
    /\ Len(DataLines(sess.out)) = ring.cap
    /\ sess.seq = ring.next

\* C25: once the client-disconnect signal of a session has fired, the session
\* terminates at its next loop step without attempting any further data line
\* or keep-alive, whatever else is ready at that moment; and under fair
\* scheduling a session whose disconnect signal has fired eventually
\* terminates
C25_DisconnectStopsAtOnce ==
    /\ [][(sess.ctxDone /\ sess.pc = "loop") =>
              /\ sess'.out = sess.out
              /\ sess'.pc \in {"loop", "return"}]_vars
    /\ ((sess.ctxDone /\ sess.pc # "rejected") ~> sess.pc = "done")

(***************************************************************************)
(* Claims about the three mutexes, checked under FairSpecLk.               *)
(***************************************************************************)
\* session s is in a write to its client: the hello event, a keep-alive or a
\* data line
InClientWrite(s) == lk.pc[s] \in {"hello", "hbwrite", "linewrite"}

\* goroutine p is inside Append, GetFrom, Head, Broadcast, Subscribe or
\* unsubscribe: it waits for the mutex of the call or holds it
InCall(p) ==
    lk.pc[p] \in {"w_rmu", "w_app", "w_bmu", "w_send", "subscribe", "sub_held",
                  "head", "head_held", "getfrom", "getfrom_held", "unsub",
                  "unsub_held"}

\* C32: no session writes to its client while it holds the ring mutex or the
\* registry mutex, and every call of Append, GetFrom, Head, Broadcast,
\* Subscribe and unsubscribe completes although nothing ever makes a write
\* to a client return
C32_NoClientWriteUnderLock ==
    /\ [](\A s \in Sessions : InClientWrite(s) => lk.rmu # s /\ lk.bmu # s)
    /\ \A p \in Procs : InCall(p) ~> ~InCall(p)

\* C32 witness: a session is in the write of a data line, its queue is full
\* again, and another goroutine is inside Broadcast holding the registry mutex
C32_Witness ==
    \E s \in Sessions : \E p \in Procs \ {s} :
        /\ lk.pc[s] = "linewrite"
        /\ s \in lk.subs
        /\ Len(lk.chq[s]) = QueueCap
        /\ lk.pc[p] = "w_send"

\* goroutine p waits for a mutex
LkWaiting(p) ==
    lk.pc[p] \in {"w_tmu", "w_rmu", "w_bmu", "subscribe", "head", "getfrom",
                  "unsub"}

\* C37: no reachable state is a deadlock among the three mutexes: whenever a
\* goroutine waits for a mutex, some goroutine can take a mutex or finish
\* the critical section it is in, and every goroutine that waits for a mutex
\* eventually gets it
C37_NoDeadlock ==
    /\ []((\E p \in Procs : LkWaiting(p)) =>
             \E q \in Procs : ENABLED (LkAcquire(q) \/ LkCritical(q)))
    /\ \A p \in Procs : LkWaiting(p) ~> ~LkWaiting(p)

\* C37 witness: a log write holds the log-writer mutex and waits for the
\* registry mutex, which a disconnecting session holds in unsubscribe, while
\* the third goroutine waits for the log-writer mutex
C37_Witness ==
    \E p \in Procs : \E s \in Sessions \ {p} : \E q \in Procs \ {p, s} :
        /\ lk.tmu = p /\ lk.pc[p] = "w_bmu"
        /\ lk.bmu = s /\ lk.pc[s] = "unsub_held"
        /\ lk.pc[q] = "w_tmu"

(***************************************************************************)
(* Claims about bytesToHuman, checked under SpecHuman.                     *)
(***************************************************************************)
\* C38: bytesToHuman completes without panic for every value of the word:
\* the unit index it computes stays within the four available units
C38_UnitIndexInRange ==
    /\ human.pc # "panic"
    /\ human.pc = "loop" => human.exp < Len(Prefixes)

(***************************************************************************)
(* Claims about sseBroadcaster and the push-mode sessions, checked under   *)
(* SpecBus (FairSpecBus where a Broadcast has to finish).                  *)
(***************************************************************************)
Range(s) == {s[i] : i \in 1 .. Len(s)}

\* the step handles channel ch of the Broadcast in flight
SendsTo(ch) == wr.phase = "send" /\ ch \in wr.pending /\ ch \notin wr'.pending

\* C5 (part): each channel of a Broadcast gets the line if it has room and is
\* left as it is if it is full, whatever the state of the other channels
IsolatedSend ==
    \A ch \in Sessions :
        SendsTo(ch) =>
            IF Len(chq[ch]) >= QueueCap
            THEN chq'[ch] = chq[ch] /\ wr.line \in dropped'[ch]
            ELSE chq'[ch] = Append(chq[ch], wr.line) /\ wr.line \notin dropped'[ch]

\* C5 (part): a Broadcast about to return has handled every registered channel
AllHandled ==
    (wr.phase = "send" /\ wr.pending = {}) =>
        \A ch \in subs : wr.line \in Range(enq[ch]) \cup dropped[ch]

\* C5: with subscriber X's queue full and subscriber Y's with room,
\* Broadcast(L) enqueues L to Y, drops L for X only, reports no error and
\* returns without waiting: it terminates even if no subscriber ever reads
C5_BroadcastIsolation ==
    /\ [][IsolatedSend]_vars
    /\ [](AllHandled /\ panicked = "none")
    /\ (wr.phase # "idle") ~> (wr.phase = "idle")

\* C5 witness: one Broadcast has dropped its line for a full queue and
\* enqueued it to another
C5_Witness ==
    \E x, y \in Sessions :
        /\ wr.phase = "send"
        /\ wr.line \in dropped[x]
        /\ Len(chq[x]) = QueueCap
        /\ chq[y] # <<>>
        /\ chq[y][Len(chq[y])] = wr.line

\* C6: under every interleaving of unsubscribe calls (repeated, concurrent)
\* with Broadcast and Subscribe, the first unsubscribe removes the queue from
\* the registry and closes it, every further one is a no-op, no call panics
\* (double close, send on a closed queue) or deadlocks, and the subscriber
\* count goes down by exactly one
C6_UnsubscribeIdempotent ==
    /\ panicked = "none"
    /\ \A ch \in Sessions :
          /\ ch \in subs <=> (Subscribed(ch) /\ UnsubDone(ch) = 0)
          /\ chClosed[ch] <=> UnsubDone(ch) >= 1
    /\ Cardinality(subs) = Cardinality({ch \in Sessions : Subscribed(ch)})
                           - Cardinality({ch \in Sessions : UnsubDone(ch) >= 1})
    /\ busMu # "free" => ENABLED BroadcastStep

\* C6 witness: unsubscribe has been called twice for a channel that received
\* lines, and a Broadcast is ranging over the registry afterwards
C6_Witness ==
    \E ch \in Sessions :
        /\ UnsubDone(ch) = 2
        /\ enq[ch] # <<>>
        /\ wr.phase = "send"

\* C7: the lines queued for a subscription never exceed its capacity K,
\* whatever the interleaving of Broadcasts and reads, and a Broadcast that
\* finds a queue at capacity leaves its contents unchanged
C7_QueueBounded ==
    /\ [](\A ch \in Sessions : Len(chq[ch]) <= QueueCap)
    /\ [][\A ch \in Sessions :
             (SendsTo(ch) /\ Len(chq[ch]) = QueueCap) => chq'[ch] = chq[ch]]_vars

\* C7 witness: a queue at capacity for which a line has been dropped
C7_Witness ==
    \E ch \in Sessions : Len(chq[ch]) = QueueCap /\ dropped[ch] # {}

\* C8: a Broadcast enqueues its line at most once to each queue registered at
\* the time of the call and to no queue registered afterwards; a line dropped
\* for a subscriber is never delivered to it later
C8_AtMostOnce ==
    \A ch \in Sessions :
        /\ \A i, j \in 1 .. Len(enq[ch]) : i # j => enq[ch][i] # enq[ch][j]
        /\ \A l \in Range(enq[ch]) \cup dropped[ch] : l > regAt[ch]
        /\ Range(enq[ch]) \cap dropped[ch] = {}
        /\ Range(chq[ch]) \subseteq Range(enq[ch])

\* C8 witness: a subscriber registered after some Broadcast missed a line
\* and got a later one
C8_Witness ==
    \E ch \in Sessions :
        /\ regAt[ch] >= 1
        /\ \E d \in dropped[ch] : \E e \in Range(enq[ch]) : e > d

\* the subscription of session i has been released
Released(i) == i \notin subs /\ chClosed[i]

\* C9: whichever branch ends a push-mode session (disconnect signal, failed
\* heartbeat write, failed line write, closed channel), its subscription is
\* out of the registry and its queue closed once it has terminated, so the
\* registry never holds a queue of a terminated session
C9_ReleasedOnExit ==
    /\ [](\A i \in Sessions : pc[i] \in {"disclogwait", "disclog", "done"} => Released(i))
    /\ [][\A i \in Sessions :
             (pc[i] \in RetStates /\ pc'[i] # pc[i]) => Released(i)']_vars

\* C9 witness: a session that received lines has terminated, with no call of
\* its unsubscribe function but the deferred one, while the other session is
\* still subscribed
C9_Witness ==
    \E i, j \in Sessions :
        /\ pc[i] = "done"
        /\ extraUnsub[i] = 0
        /\ j \in subs
        /\ enq[i] # <<>>

====
